---------------------------- MODULE Spec2Model ----------------------------
(***************************************************************************)
(* Heuristic state-space search (8PuzzleProblem): the sliding-puzzle       *)
(* domain, the three heuristics, the Node arena and the six search         *)
(* algorithms of src/algorithms/search_algorithms.py, as state machines.   *)
(*                                                                         *)
(* Conventions.  A puzzle state is a tuple (sequence) of tiles, 0 the      *)
(* blank; Python's 0-based index i is position i+1 of the sequence.        *)
(* A Node is a record of the arena `nodes`; a node is named by its index   *)
(* in the arena and parent = 0 stands for None.  float('inf') is the       *)
(* number Infinity.  Every float the algorithms compute on the puzzle is   *)
(* an integer or a rational, kept exact (see Priority, Fitness, T).        *)
(***************************************************************************)
EXTENDS Integers, Sequences, FiniteSets, TLC

VARIABLES
    problem,            \* the SlidingPuzzleProblem given to search(): size, _initial_state, _goal_state
    cfg,                \* the SearchAlgorithm object: its class and constructor arguments
    pc,                 \* where the running search() call is
    nodes,              \* every Node constructed by the running call (the arena)
    frontier,           \* AStar / GreedyBestFirst: the heap, a set of (f, counter, node) entries
    counter,            \* AStar / GreedyBestFirst: insertion counter
    best_g,             \* AStar: state_key -> best path_cost expanded
    visited,            \* GreedyBestFirst: set of state keys popped
    current_node,       \* HillClimbing / SimulatedAnnealing: current node
    current_h,          \* HillClimbing / SimulatedAnnealing: its heuristic value
    T,                  \* SimulatedAnnealing: temperature, in units of TFloor (1e-8)
    iterations,         \* HillClimbing / SimulatedAnnealing: loop passes
    bound,              \* IDAStar: the cost bound of the current pass
    stack,              \* IDAStar: the frames of search_recursive, innermost last
    ret,                \* IDAStar: the value a frame has just returned, or NoRet
    population,         \* Genetic: the current generation
    scored_population,  \* Genetic: (fitness, individual) of the individuals evaluated
    generation,         \* Genetic: index of the generation being evaluated
    nodes_expanded,     \* every algorithm's counter
    result,             \* the SearchResult returned, or the exception raised
    rng,                \* the state of the process-wide generator of module random
    rng_start,          \* the state that generator was in when the first call began
    history,            \* the results of the calls that returned before the running one
    suspended,          \* the frames of the search() calls of the threads that are not running
    state,              \* SlidingPuzzleProblem.scrambled: its local `state`
    outcome             \* what the last call of SlidingPuzzleProblem.result returned or raised

searchLocals == <<problem, cfg, pc, nodes, frontier, counter, best_g, visited,
                  current_node, current_h, T, iterations, bound, stack, ret,
                  population, scored_population, generation, nodes_expanded, result>>

vars == <<searchLocals, rng, rng_start, history, suspended, state, outcome>>

-----------------------------------------------------------------------------
(* Bounds of the model *)

\* largest scramble depth of the 3x3 instances handed to a search
ScrambleDepth == 2
\* largest max_steps given to HillClimbing and SimulatedAnnealing
MaxSteps == 3
\* largest max_generations given to Genetic
MaxGenerations == 2
\* seeds of the random generator are 0..MaxSeed
MaxSeed == 3
\* the interpreter's recursion limit, scaled down: deepest Node.depth search_recursive may reach
MaxRecursion == 8

\* float('inf')
Infinity == 1000000

-----------------------------------------------------------------------------
(* Python sequences *)

\* len(range(n)) positions, 0-based
Range(n) == 0 .. n - 1

\* seq[i] for a Python index i (negative indices count from the end); "IndexError" outside
PyIndexOk(seq, i) == i >= -Len(seq) /\ i < Len(seq)
PyPos(seq, i) == IF i < 0 THEN i + Len(seq) + 1 ELSE i + 1

\* tuple.index(x): the first 0-based index holding x
TupleIndex(seq, x) == CHOOSE i \in Range(Len(seq)) :
                          /\ seq[i + 1] = x
                          /\ \A j \in Range(i) : seq[j + 1] # x

Min(S) == CHOOSE x \in S : \A y \in S : x <= y

Abs(x) == IF x < 0 THEN -x ELSE x

RECURSIVE SumSeq(_)
SumSeq(s) == IF s = <<>> THEN 0 ELSE Head(s) + SumSeq(Tail(s))

-----------------------------------------------------------------------------
(* src/domain/puzzle_problem.py *)

AllActions == <<"UP", "DOWN", "LEFT", "RIGHT">>

\* _default_goal_state: tuple(list(range(1, n)) + [0])
DefaultGoalState(size) ==
    [i \in 1 .. size * size |-> IF i < size * size THEN i ELSE 0]

\* _index_to_pos: divmod(index, size)
IndexToPos(size, index) == <<index \div size, index % size>>

\* _pos_to_index
PosToIndex(size, row, col) == row * size + col

\* Problem is an abstract class: a caller can hand search() a subclass of its own.
\* A problem record with the field names is a sliding puzzle whose actions() and
\* result() call the four moves by other names; one with the field step_costs
\* overrides step_cost by a cost for each move.  SlidingPuzzleProblem has neither.
ActionName(p, a) == IF "names" \in DOMAIN p THEN p.names[a] ELSE a

\* actions(state): the generator's yields, in order
Actions(p, s) ==
    LET pos == IndexToPos(p.size, TupleIndex(s, 0))
        row == pos[1]
        col == pos[2]
    IN  (IF row > 0 THEN <<ActionName(p, "UP")>> ELSE <<>>)
        \o (IF row < p.size - 1 THEN <<ActionName(p, "DOWN")>> ELSE <<>>)
        \o (IF col > 0 THEN <<ActionName(p, "LEFT")>> ELSE <<>>)
        \o (IF col < p.size - 1 THEN <<ActionName(p, "RIGHT")>> ELSE <<>>)

InSeq(x, seq) == \E i \in 1 .. Len(seq) : seq[i] = x

\* result(state, action): the tuple returned, or the name of the exception raised.
\* The swap indexes a Python list, so a negative idx_swap wraps round and an
\* idx_swap past the end raises IndexError.
ResultSwapIndex(p, s, action) ==
    LET pos == IndexToPos(p.size, TupleIndex(s, 0))
        row == pos[1]
        col == pos[2]
    IN  CASE action = ActionName(p, "UP")    -> PosToIndex(p.size, row - 1, col)
          [] action = ActionName(p, "DOWN")  -> PosToIndex(p.size, row + 1, col)
          [] action = ActionName(p, "LEFT")  -> PosToIndex(p.size, row, col - 1)
          [] action = ActionName(p, "RIGHT") -> PosToIndex(p.size, row, col + 1)

\* the exception result(state, action) raises, "None" when it returns
ResultRaises(p, s, action) ==
    IF \A i \in 1 .. Len(AllActions) : ActionName(p, AllActions[i]) # action
    THEN "ValueError"
    ELSE IF ~PyIndexOk(s, ResultSwapIndex(p, s, action)) THEN "IndexError"
    ELSE "None"

\* the tuple result(state, action) returns, when it raises nothing
Result(p, s, action) ==
    LET idx_blank == TupleIndex(s, 0)
        idx_swap  == ResultSwapIndex(p, s, action)
    IN  [i \in 1 .. Len(s) |->
           IF i = idx_blank + 1 /\ i = PyPos(s, idx_swap) THEN s[i]
           ELSE IF i = idx_blank + 1 THEN s[PyPos(s, idx_swap)]
           ELSE IF i = PyPos(s, idx_swap) THEN s[idx_blank + 1]
           ELSE s[i]]

\* a variant in which every move costs 2
StepCostTwo(p, s, action, next_state) == 2

\* Problem.step_cost, not overridden by SlidingPuzzleProblem
StepCost(p, s, action, next_state) ==
    IF "step_costs" \in DOMAIN p THEN p.step_costs[action] ELSE 1

IsGoal(p, s) == s = p.goal

\* Problem.state_key, not overridden
StateKey(p, s) == s

-----------------------------------------------------------------------------
(* src/algorithms/heuristics.py *)

\* tile_to_pos[tile], the table built from goal_state
TileToPos(goal_state, size, tile) ==
    IndexToPos(size, TupleIndex(goal_state, tile))

misplaced_tiles_heuristic(goal_state, s) ==
    Cardinality({i \in 1 .. Len(s) : s[i] # 0 /\ s[i] # goal_state[i]})

manhattan_distance_heuristic(goal_state, size, s) ==
    SumSeq([i \in 1 .. Len(s) |->
              IF s[i] = 0 THEN 0
              ELSE LET here == IndexToPos(size, i - 1)
                       there == TileToPos(goal_state, size, s[i])
                   IN  Abs(here[1] - there[1]) + Abs(here[2] - there[2])])

\* the conflicts counted in row r: pairs of tiles of the row, both in their goal
\* row, the left one's goal column greater than the right one's
RowConflicts(goal_state, size, s, r) ==
    LET inRow(c) == /\ s[r * size + c + 1] # 0
                    /\ TileToPos(goal_state, size, s[r * size + c + 1])[1] = r
        goalCol(c) == TileToPos(goal_state, size, s[r * size + c + 1])[2]
    IN  Cardinality({pair \in Range(size) \X Range(size) :
                       /\ pair[1] < pair[2]
                       /\ inRow(pair[1]) /\ inRow(pair[2])
                       /\ goalCol(pair[1]) > goalCol(pair[2])})

ColConflicts(goal_state, size, s, c) ==
    LET inCol(r) == /\ s[r * size + c + 1] # 0
                    /\ TileToPos(goal_state, size, s[r * size + c + 1])[2] = c
        goalRow(r) == TileToPos(goal_state, size, s[r * size + c + 1])[1]
    IN  Cardinality({pair \in Range(size) \X Range(size) :
                       /\ pair[1] < pair[2]
                       /\ inCol(pair[1]) /\ inCol(pair[2])
                       /\ goalRow(pair[1]) > goalRow(pair[2])})

Conflicts(goal_state, size, s) ==
    SumSeq([k \in 1 .. size |-> RowConflicts(goal_state, size, s, k - 1)])
    + SumSeq([k \in 1 .. size |-> ColConflicts(goal_state, size, s, k - 1)])

\* a variant that takes the conflicts off the Manhattan distance instead of adding them
linear_conflict_minus(goal_state, size, s) ==
    manhattan_distance_heuristic(goal_state, size, s)
    - 2 * Conflicts(goal_state, size, s)

linear_conflict_heuristic(goal_state, size, s) ==
    manhattan_distance_heuristic(goal_state, size, s)
    + 2 * Conflicts(goal_state, size, s)

HeuristicNames == {"misplaced", "manhattan", "linear"}

\* Heuristic is any callable on states: besides the three of heuristics.py a caller
\* can hand an algorithm one of its own.  masked_heuristic is the Manhattan distance
\* on the states whose first cell holds the given tile, and 0 on every other state:
\* it never exceeds the Manhattan distance, and it is not consistent, as one move
\* can take it from 0 to the whole Manhattan distance
masked_heuristic(tile, goal_state, size, s) ==
    IF s[1] = tile THEN manhattan_distance_heuristic(goal_state, size, s) ELSE 0

\* the tile a caller's masked heuristic looks for
MaskedNames == {"masked1", "masked2", "masked3"}

MaskedTile(name) ==
    CASE name = "masked1" -> 1
      [] name = "masked2" -> 2
      [] name = "masked3" -> 3

\* the heuristic closure an algorithm holds, built for the problem's goal
\* (build_algorithm: every heuristic is built from problem.goal_state, problem.size)
Heuristic(name, p, s) ==
    CASE name = "misplaced" -> misplaced_tiles_heuristic(p.goal, s)
      [] name = "manhattan" -> manhattan_distance_heuristic(p.goal, p.size, s)
      [] name = "linear"    -> linear_conflict_heuristic(p.goal, p.size, s)
      [] name \in MaskedNames ->
            masked_heuristic(MaskedTile(name), p.goal, p.size, s)

-----------------------------------------------------------------------------
(* Values of the variables a specification does not use *)

NoResult == [solution_node |-> 0, success |-> FALSE, nodes_expanded |-> 0,
             iterations |-> 0, exception |-> "unset"]

NoRet == [t |-> -2, solution |-> 0]

NoOutcome == [state |-> <<>>, action |-> "", returned |-> <<>>, raised |-> "unset"]

\* a SearchAlgorithm object: every constructor argument of the six classes; a class
\* reads only its own.  weight, alpha and mutation_rate are fractions <<num, den>>.
NoCfg == [alg |-> "none", heuristic |-> "manhattan", weight |-> <<1, 1>>,
          max_steps |-> 0, T0 |-> 0, alpha |-> <<1, 1>>,
          population_size |-> 0, mutation_rate |-> <<0, 1>>,
          max_generations |-> 0, chromosome_length |-> 0]

NoSearch ==
    /\ cfg = NoCfg
    /\ pc = "idle"
    /\ nodes = <<>>
    /\ frontier = {}
    /\ counter = 0
    /\ best_g = <<>>
    /\ visited = {}
    /\ current_node = 0
    /\ current_h = 0
    /\ T = 0
    /\ iterations = 0
    /\ bound = 0
    /\ stack = <<>>
    /\ ret = NoRet
    /\ population = <<>>
    /\ scored_population = <<>>
    /\ generation = 0
    /\ nodes_expanded = 0
    /\ result = NoResult
    /\ rng = 0
    /\ rng_start = 0
    /\ history = <<>>
    /\ suspended = <<>>

-----------------------------------------------------------------------------
(* The puzzle domain on its own: every board of sizes 2 and 3 *)

Sizes == {2, 3}

\* a tuple with the tiles at 0-based indices i and j exchanged
SwapTiles(s, i, j) ==
    [k \in 1 .. Len(s) |-> IF k = i + 1 THEN s[j + 1]
                           ELSE IF k = j + 1 THEN s[i + 1] ELSE s[k]]

\* SlidingPuzzleProblem(size, initial_state, goal_state)
SlidingPuzzleProblem(size, initial_state, goal_state) ==
    [size |-> size, initial |-> initial_state, goal |-> goal_state]

\* One representative of each of the two classes of boards that legal moves
\* keep apart: the default goal, and the default goal with tiles 1 and 2 exchanged.
ParityRepresentatives(size) ==
    {DefaultGoalState(size), SwapTiles(DefaultGoalState(size), 0, 1)}

InitBoards ==
    /\ \E size \in Sizes : \E s \in ParityRepresentatives(size) :
          /\ problem = SlidingPuzzleProblem(size, s, DefaultGoalState(size))
          /\ state = s
    /\ outcome = NoOutcome
    /\ NoSearch

\* the body of the loop of SlidingPuzzleProblem.scrambled, for any choice of rng.choice
ScrambleStep ==
    /\ \E i \in 1 .. Len(Actions(problem, state)) :
          state' = Result(problem, state, Actions(problem, state)[i])
    /\ UNCHANGED <<searchLocals, rng, rng_start, history, suspended, outcome>>

NextBoards == ScrambleStep

SpecBoards == InitBoards /\ [][NextBoards]_vars

\* C10: on every board of sizes 2 and 3, with the heuristics built for the goal,
\* linear_conflict_heuristic(state) >= manhattan_distance_heuristic(state) >= 0.
C10_LinearConflictDominatesManhattan ==
    /\ linear_conflict_heuristic(problem.goal, problem.size, state)
         >= manhattan_distance_heuristic(problem.goal, problem.size, state)
    /\ manhattan_distance_heuristic(problem.goal, problem.size, state) >= 0

\* a 3x3 board with a linear conflict: the domination is strict there
C10_Witness ==
    /\ problem.size = 3
    /\ linear_conflict_heuristic(problem.goal, problem.size, state)
         > manhattan_distance_heuristic(problem.goal, problem.size, state)
    /\ manhattan_distance_heuristic(problem.goal, problem.size, state) > 0

-----------------------------------------------------------------------------
(* Calls of SlidingPuzzleProblem.result with any action name, legal or not *)

\* every tuple that is a permutation of 0 .. size*size-1
Boards(size) ==
    {s \in [1 .. size * size -> 0 .. size * size - 1] :
        \A i, j \in 1 .. size * size : i # j => s[i] # s[j]}

\* a scramble that makes two moves in each pass of its loop
RECURSIVE ScrambledStatesTwoMoves(_, _)
ScrambledStatesTwoMoves(size, depth) ==
    IF depth = 0 THEN {DefaultGoalState(size)}
    ELSE LET p == SlidingPuzzleProblem(size, DefaultGoalState(size), DefaultGoalState(size))
             once(from) == {Result(p, x[1], Actions(p, x[1])[x[2]]) :
                               x \in {y \in from \X (1 .. 4) : y[2] <= Len(Actions(p, y[1]))}}
         IN  once(once(ScrambledStatesTwoMoves(size, depth - 1)))

\* the states SlidingPuzzleProblem.scrambled(size, depth) can end in, over all seeds
RECURSIVE ScrambledStates(_, _)
ScrambledStates(size, depth) ==
    IF depth = 0 THEN {DefaultGoalState(size)}
    ELSE LET p == SlidingPuzzleProblem(size, DefaultGoalState(size), DefaultGoalState(size))
         IN  {Result(p, s, Actions(p, s)[i]) :
                 <<s, i>> \in {x \in ScrambledStates(size, depth - 1) \X (1 .. 4) :
                                  x[2] <= Len(Actions(p, x[1]))}}

\* The instances handed to the algorithms: every 2x2 board (half of them cannot
\* reach the goal) and the 3x3 boards scrambled by at most ScrambleDepth moves.
Problems ==
    {SlidingPuzzleProblem(2, s, DefaultGoalState(2)) : s \in Boards(2)}
    \cup {SlidingPuzzleProblem(3, s, DefaultGoalState(3)) :
             s \in UNION {ScrambledStates(3, d) : d \in 0 .. ScrambleDepth}}

\* an action name that is none of UP, DOWN, LEFT, RIGHT
UnknownAction == "STAY"

InitResult ==
    /\ problem \in Problems
    /\ state = problem.initial
    /\ outcome = NoOutcome
    /\ NoSearch

\* a caller's problem.result(state, action), the action not checked against actions(state)
CallResult ==
    /\ \E action \in {AllActions[i] : i \in 1 .. 4} \cup {UnknownAction} :
          outcome' = [state |-> state, action |-> action,
                      returned |-> IF ResultRaises(problem, state, action) = "None"
                                   THEN Result(problem, state, action) ELSE <<>>,
                      raised |-> ResultRaises(problem, state, action)]
    /\ UNCHANGED <<searchLocals, rng, rng_start, history, suspended, state>>

NextResult == CallResult

SpecResult == InitResult /\ [][NextResult]_vars

\* C7: result(state, action) with an action that is not in actions(state) signals
\* an error and returns no successor state.
C7_IllegalActionRaises ==
    (outcome # NoOutcome /\ ~InSeq(outcome.action, Actions(problem, outcome.state)))
        => (outcome.raised # "None" /\ outcome.returned = <<>>)

-----------------------------------------------------------------------------
(* src/core/node.py, src/core/results.py *)

Node(s, parent, action, path_cost, depth) ==
    [state |-> s, parent |-> parent, action |-> action,
     path_cost |-> path_cost, depth |-> depth]

\* Node(start_state): parent None, action None, path_cost 0.0, depth 0
RootNode(s) == Node(s, 0, "None", 0, 0)

\* Node.expand(problem) of node `id` of arena ns: its children, in the order of actions
Expand(p, ns, id) ==
    LET acts == Actions(p, ns[id].state)
    IN  [i \in 1 .. Len(acts) |->
           LET next_state == Result(p, ns[id].state, acts[i])
           IN  Node(next_state, id, acts[i],
                    ns[id].path_cost + StepCost(p, ns[id].state, acts[i], next_state),
                    ns[id].depth + 1)]

\* a variant of solution_path that leaves out path.reverse(): goal first, root last
RECURSIVE NodePathUnreversed(_, _)
NodePathUnreversed(ns, id) ==
    IF id = 0 THEN <<>> ELSE <<ns[id]>> \o NodePathUnreversed(ns, ns[id].parent)

\* Node.solution_path(): the nodes from the root to node `id`, following parent
RECURSIVE NodePath(_, _)
NodePath(ns, id) ==
    IF id = 0 THEN <<>> ELSE Append(NodePath(ns, ns[id].parent), ns[id])

\* SearchResult(solution_node, success, nodes_expanded, runtime, iterations); the
\* wall-clock runtime is left out.  exception is "None" for a result that was returned.
SearchResult(solution_node, success, expanded, iters) ==
    [solution_node |-> solution_node, success |-> success,
     nodes_expanded |-> expanded, iterations |-> iters, exception |-> "None"]

\* search() left by an exception instead of a return
Raised(exception, expanded, iters) ==
    [solution_node |-> 0, success |-> FALSE,
     nodes_expanded |-> expanded, iterations |-> iters, exception |-> exception]

\* a variant that leaves the root out of the path
solution_pathWithoutRoot(ns, r) ==
    IF r.solution_node = 0 THEN <<>> ELSE Tail(NodePath(ns, r.solution_node))

\* SearchResult.solution_path
solution_path(ns, r) ==
    IF r.solution_node = 0 THEN <<>> ELSE NodePath(ns, r.solution_node)

\* SearchResult.solution_cost
solution_cost(ns, r) ==
    IF r.solution_node = 0 THEN Infinity ELSE ns[r.solution_node].path_cost

-----------------------------------------------------------------------------
(* module random: one process-wide generator.  The generator is a small    *)
(* full-period congruential generator; a draw advances it and scales the   *)
(* new state to the range asked for.                                       *)

RngNext(s) == (5 * s + 3) % 64

\* random.seed(k)
RngSeed(k) == (17 * k) % 64

\* the value of a draw below n (0 <= value < n) taken in generator state s
RandBelow(s, n) == (RngNext(s) * n) \div 64

\* random.choice(seq) taken in generator state s
RandomChoice(s, seq) == seq[RandBelow(s, Len(seq)) + 1]

\* random.random() taken in state s, in quarters: 0, 1/4, 1/2 or 3/4
RandomQuarters(s) == RandBelow(s, 4)

\* random.randint(a, b) taken in state s (a <= b)
RandInt(s, a, b) == a + RandBelow(s, b - a + 1)

-----------------------------------------------------------------------------
(* The algorithm objects handed to SearchAgent *)

WithHeuristic(alg) == {[NoCfg EXCEPT !.alg = alg, !.heuristic = h] : h \in HeuristicNames}

\* AStarSearch(heuristic, weight): weight 1.0 (the default) and 1.5 (astar_weighted)
AStarConfigs ==
    {[c EXCEPT !.weight = w] : c \in WithHeuristic("AStar"), w \in {<<1, 1>>, <<3, 2>>}}

GreedyConfigs == WithHeuristic("GreedyBestFirst")

\* the heuristic closure of the running algorithm
h(s) == Heuristic(cfg.heuristic, problem, s)

searchVars == <<frontier, counter, best_g, visited>>
localVars  == <<current_node, current_h, T, iterations>>
idaVars    == <<bound, stack, ret>>
gaVars     == <<population, scored_population, generation>>
envVars    == <<rng_start, history, suspended, state, outcome>>

-----------------------------------------------------------------------------
(* AStarSearch.search *)

\* f(n) = g(n) + w * h(n), times the denominator of w
AStarF(n) == cfg.weight[2] * n.path_cost + cfg.weight[1] * h(n.state)

\* a variant that pops, among the entries of least f, the one inserted last
HeapPopLatest(heap) ==
    CHOOSE e \in heap : \A o \in heap :
        e.f < o.f \/ (e.f = o.f /\ e.counter >= o.counter)

\* a variant that pops the greatest entry instead of the least
HeapPopGreatest(heap) ==
    CHOOSE e \in heap : \A o \in heap :
        e.f > o.f \/ (e.f = o.f /\ e.counter >= o.counter)

\* heapq.heappop: the least entry, by f and then by counter
HeapPop(heap) ==
    CHOOSE e \in heap : \A o \in heap :
        e.f < o.f \/ (e.f = o.f /\ e.counter <= o.counter)

\* the positions of a sequence of booleans that hold TRUE, in order
RECURSIVE KeptPositions(_, _)
KeptPositions(keep, i) ==
    IF i > Len(keep) THEN <<>>
    ELSE (IF keep[i] THEN <<i>> ELSE <<>>) \o KeptPositions(keep, i + 1)

\* the heap entries pushed for the children j with keep[j], fs[j] the priority of
\* child j: child j of the expansion is node base + j of the arena, and the k-th
\* child pushed gets counter cnt + k
Pushed(fs, keep, base, cnt) ==
    LET kept == KeptPositions(keep, 1)
    IN  {[f |-> fs[kept[k]], counter |-> cnt + k, node |-> base + kept[k]] :
            k \in 1 .. Len(kept)}

NumPushed(keep) == Len(KeptPositions(keep, 1))

AStarBegin ==
    /\ cfg.alg = "AStar" /\ pc = "call"
    /\ nodes' = <<RootNode(problem.initial)>>
    /\ frontier' = {[f |-> AStarF(RootNode(problem.initial)), counter |-> 0, node |-> 1]}
    /\ counter' = 0
    /\ best_g' = <<>>
    /\ nodes_expanded' = 0
    /\ pc' = "loop"
    /\ UNCHANGED <<problem, cfg, visited, localVars, idaVars, gaVars, result, rng, envVars>>

\* the popped node is a goal: return it
AStarReturnGoal ==
    /\ cfg.alg = "AStar" /\ pc = "loop" /\ frontier # {}
    /\ LET e == HeapPop(frontier)
       IN  /\ IsGoal(problem, nodes[e.node].state)
           /\ frontier' = frontier \ {e}
           /\ result' = SearchResult(e.node, TRUE, nodes_expanded, 0)
    /\ pc' = "done"
    /\ UNCHANGED <<problem, cfg, nodes, counter, best_g, visited, localVars, idaVars,
                   gaVars, nodes_expanded, rng, envVars>>

\* a variant that counts a discarded node as expanded
AStarSkipCounts ==
    /\ cfg.alg = "AStar" /\ pc = "loop" /\ frontier # {}
    /\ LET e == HeapPop(frontier)
           state_key == StateKey(problem, nodes[e.node].state)
       IN  /\ ~IsGoal(problem, nodes[e.node].state)
           /\ state_key \in DOMAIN best_g
           /\ best_g[state_key] <= nodes[e.node].path_cost
           /\ frontier' = frontier \ {e}
    /\ nodes_expanded' = nodes_expanded + 1
    /\ UNCHANGED <<problem, cfg, pc, nodes, counter, best_g, visited, localVars, idaVars,
                   gaVars, result, rng, envVars>>

\* a variant with a closed list: a popped node whose key was expanded before is
\* dropped even when it is cheaper
AStarSkipClosed ==
    /\ cfg.alg = "AStar" /\ pc = "loop" /\ frontier # {}
    /\ LET e == HeapPop(frontier)
           state_key == StateKey(problem, nodes[e.node].state)
       IN  /\ ~IsGoal(problem, nodes[e.node].state)
           /\ state_key \in DOMAIN best_g
           /\ frontier' = frontier \ {e}
    /\ UNCHANGED <<problem, cfg, pc, nodes, counter, best_g, visited, localVars, idaVars,
                   gaVars, nodes_expanded, result, rng, envVars>>

\* the popped node's key is recorded with a cost no greater: continue
AStarSkip ==
    /\ cfg.alg = "AStar" /\ pc = "loop" /\ frontier # {}
    /\ LET e == HeapPop(frontier)
           state_key == StateKey(problem, nodes[e.node].state)
       IN  /\ ~IsGoal(problem, nodes[e.node].state)
           /\ state_key \in DOMAIN best_g
           /\ best_g[state_key] <= nodes[e.node].path_cost
           /\ frontier' = frontier \ {e}
    /\ UNCHANGED <<problem, cfg, pc, nodes, counter, best_g, visited, localVars, idaVars,
                   gaVars, nodes_expanded, result, rng, envVars>>

AStarExpand ==
    /\ cfg.alg = "AStar" /\ pc = "loop" /\ frontier # {}
    /\ LET e == HeapPop(frontier)
           state_key == StateKey(problem, nodes[e.node].state)
           recorded == [k \in DOMAIN best_g \cup {state_key} |->
                          IF k = state_key THEN nodes[e.node].path_cost ELSE best_g[k]]
           children == Expand(problem, nodes, e.node)
           keep == [j \in 1 .. Len(children) |->
                      \/ StateKey(problem, children[j].state) \notin DOMAIN recorded
                      \/ children[j].path_cost
                            < recorded[StateKey(problem, children[j].state)]]
           fs == [j \in 1 .. Len(children) |-> AStarF(children[j])]
       IN  /\ ~IsGoal(problem, nodes[e.node].state)
           /\ ~(state_key \in DOMAIN best_g /\ best_g[state_key] <= nodes[e.node].path_cost)
           /\ best_g' = recorded
           /\ nodes_expanded' = nodes_expanded + 1
           /\ nodes' = nodes \o children
           /\ frontier' = (frontier \ {e})
                            \cup Pushed(fs, keep, Len(nodes), counter)
           /\ counter' = counter + NumPushed(keep)
    /\ UNCHANGED <<problem, cfg, pc, visited, localVars, idaVars, gaVars, result, rng, envVars>>

\* the frontier is empty: no solution
AStarFail ==
    /\ cfg.alg = "AStar" /\ pc = "loop" /\ frontier = {}
    /\ result' = SearchResult(0, FALSE, nodes_expanded, 0)
    /\ pc' = "done"
    /\ UNCHANGED <<problem, cfg, nodes, searchVars, localVars, idaVars, gaVars,
                   nodes_expanded, rng, envVars>>

AStarSearch == AStarBegin \/ AStarReturnGoal \/ AStarSkip \/ AStarExpand \/ AStarFail

-----------------------------------------------------------------------------
(* GreedyBestFirstSearch.search *)

GreedyF(n) == h(n.state)

GreedyBegin ==
    /\ cfg.alg = "GreedyBestFirst" /\ pc = "call"
    /\ nodes' = <<RootNode(problem.initial)>>
    /\ frontier' = {[f |-> GreedyF(RootNode(problem.initial)), counter |-> 0, node |-> 1]}
    /\ counter' = 0
    /\ visited' = {}
    /\ nodes_expanded' = 0
    /\ pc' = "loop"
    /\ UNCHANGED <<problem, cfg, best_g, localVars, idaVars, gaVars, result, rng, envVars>>

\* a variant that expands the popped node although its key was popped before
GreedySkipExpands ==
    /\ cfg.alg = "GreedyBestFirst" /\ pc = "loop" /\ frontier # {}
    /\ LET e == HeapPop(frontier)
           children == Expand(problem, nodes, e.node)
           keep == [j \in 1 .. Len(children) |->
                      StateKey(problem, children[j].state) \notin visited]
           fs == [j \in 1 .. Len(children) |-> GreedyF(children[j])]
       IN  /\ StateKey(problem, nodes[e.node].state) \in visited
           /\ nodes_expanded' = nodes_expanded + 1
           /\ nodes' = nodes \o children
           /\ frontier' = (frontier \ {e})
                            \cup Pushed(fs, keep, Len(nodes), counter)
           /\ counter' = counter + NumPushed(keep)
    /\ UNCHANGED <<problem, cfg, pc, best_g, visited, localVars, idaVars, gaVars, result,
                   rng, envVars>>

\* the popped node's key was popped before: continue
GreedySkip ==
    /\ cfg.alg = "GreedyBestFirst" /\ pc = "loop" /\ frontier # {}
    /\ LET e == HeapPop(frontier)
       IN  /\ StateKey(problem, nodes[e.node].state) \in visited
           /\ frontier' = frontier \ {e}
    /\ UNCHANGED <<problem, cfg, pc, nodes, counter, best_g, visited, localVars, idaVars,
                   gaVars, nodes_expanded, result, rng, envVars>>

GreedyReturnGoal ==
    /\ cfg.alg = "GreedyBestFirst" /\ pc = "loop" /\ frontier # {}
    /\ LET e == HeapPop(frontier)
       IN  /\ StateKey(problem, nodes[e.node].state) \notin visited
           /\ IsGoal(problem, nodes[e.node].state)
           /\ visited' = visited \cup {StateKey(problem, nodes[e.node].state)}
           /\ frontier' = frontier \ {e}
           /\ result' = SearchResult(e.node, TRUE, nodes_expanded, 0)
    /\ pc' = "done"
    /\ UNCHANGED <<problem, cfg, nodes, counter, best_g, localVars, idaVars, gaVars,
                   nodes_expanded, rng, envVars>>

\* a GreedyBestFirst that pushes the first child only
GreedyExpandFirstChild ==
    /\ cfg.alg = "GreedyBestFirst" /\ pc = "loop" /\ frontier # {}
    /\ LET e == HeapPop(frontier)
           seen == visited \cup {StateKey(problem, nodes[e.node].state)}
           children == Expand(problem, nodes, e.node)
           keep == [j \in 1 .. Len(children) |->
                      j = 1 /\ StateKey(problem, children[j].state) \notin seen]
           fs == [j \in 1 .. Len(children) |-> GreedyF(children[j])]
       IN  /\ StateKey(problem, nodes[e.node].state) \notin visited
           /\ ~IsGoal(problem, nodes[e.node].state)
           /\ visited' = seen
           /\ nodes_expanded' = nodes_expanded + 1
           /\ nodes' = nodes \o children
           /\ frontier' = (frontier \ {e})
                            \cup Pushed(fs, keep, Len(nodes), counter)
           /\ counter' = counter + NumPushed(keep)
    /\ UNCHANGED <<problem, cfg, pc, best_g, localVars, idaVars, gaVars, result, rng, envVars>>

GreedyExpand ==
    /\ cfg.alg = "GreedyBestFirst" /\ pc = "loop" /\ frontier # {}
    /\ LET e == HeapPop(frontier)
           seen == visited \cup {StateKey(problem, nodes[e.node].state)}
           children == Expand(problem, nodes, e.node)
           keep == [j \in 1 .. Len(children) |->
                      StateKey(problem, children[j].state) \notin seen]
           fs == [j \in 1 .. Len(children) |-> GreedyF(children[j])]
       IN  /\ StateKey(problem, nodes[e.node].state) \notin visited
           /\ ~IsGoal(problem, nodes[e.node].state)
           /\ visited' = seen
           /\ nodes_expanded' = nodes_expanded + 1
           /\ nodes' = nodes \o children
           /\ frontier' = (frontier \ {e})
                            \cup Pushed(fs, keep, Len(nodes), counter)
           /\ counter' = counter + NumPushed(keep)
    /\ UNCHANGED <<problem, cfg, pc, best_g, localVars, idaVars, gaVars, result, rng, envVars>>

GreedyFail ==
    /\ cfg.alg = "GreedyBestFirst" /\ pc = "loop" /\ frontier = {}
    /\ result' = SearchResult(0, FALSE, nodes_expanded, 0)
    /\ pc' = "done"
    /\ UNCHANGED <<problem, cfg, nodes, searchVars, localVars, idaVars, gaVars,
                   nodes_expanded, rng, envVars>>

GreedyBestFirstSearch ==
    GreedyBegin \/ GreedySkip \/ GreedyReturnGoal \/ GreedyExpand \/ GreedyFail

-----------------------------------------------------------------------------
(* HillClimbingSearch.search *)

HillClimbingConfigs ==
    {[c EXCEPT !.max_steps = m] : c \in WithHeuristic("HillClimbing"), m \in 0 .. MaxSteps}

\* min(seq, key): the position of the first element with the least key
FirstMin(keys) ==
    CHOOSE i \in 1 .. Len(keys) :
        /\ \A j \in 1 .. Len(keys) : keys[i] <= keys[j]
        /\ \A j \in 1 .. i - 1 : keys[j] > keys[i]

\* a variant that hands back the current node also when it is no goal
ReturnAfterLoopWithNode(node, expanded, iters) ==
    SearchResult(node, IsGoal(problem, nodes[node].state), expanded, iters)

\* the return after the loop of HillClimbing and SimulatedAnnealing
ReturnAfterLoop(node, expanded, iters) ==
    LET success == IsGoal(problem, nodes[node].state)
    IN  SearchResult(IF success THEN node ELSE 0, success, expanded, iters)

HillClimbingBegin ==
    /\ cfg.alg = "HillClimbing" /\ pc = "call"
    /\ nodes' = <<RootNode(problem.initial)>>
    /\ current_node' = 1
    /\ current_h' = h(problem.initial)
    /\ nodes_expanded' = 0
    /\ iterations' = 0
    /\ pc' = "loop"
    /\ UNCHANGED <<problem, cfg, searchVars, T, idaVars, gaVars, result, rng, envVars>>

HillClimbingReturnGoal ==
    /\ cfg.alg = "HillClimbing" /\ pc = "loop" /\ iterations < cfg.max_steps
    /\ IsGoal(problem, nodes[current_node].state)
    /\ iterations' = iterations + 1
    /\ result' = SearchResult(current_node, TRUE, nodes_expanded, iterations + 1)
    /\ pc' = "done"
    /\ UNCHANGED <<problem, cfg, nodes, searchVars, current_node, current_h, T, idaVars,
                   gaVars, nodes_expanded, rng, envVars>>

\* a variant that also moves to a best neighbour that is no worse
HillClimbingMoveSideways ==
    /\ cfg.alg = "HillClimbing" /\ pc = "loop" /\ iterations < cfg.max_steps
    /\ ~IsGoal(problem, nodes[current_node].state)
    /\ LET neighbors == Expand(problem, nodes, current_node)
           hs == [j \in 1 .. Len(neighbors) |-> h(neighbors[j].state)]
       IN  /\ neighbors # <<>>
           /\ hs[FirstMin(hs)] <= current_h
           /\ nodes' = nodes \o neighbors
           /\ nodes_expanded' = nodes_expanded + Len(neighbors)
           /\ current_node' = Len(nodes) + FirstMin(hs)
           /\ current_h' = hs[FirstMin(hs)]
    /\ iterations' = iterations + 1
    /\ UNCHANGED <<problem, cfg, pc, searchVars, T, idaVars, gaVars, result, rng, envVars>>

\* the best neighbour is strictly better: move to it
HillClimbingMove ==
    /\ cfg.alg = "HillClimbing" /\ pc = "loop" /\ iterations < cfg.max_steps
    /\ ~IsGoal(problem, nodes[current_node].state)
    /\ LET neighbors == Expand(problem, nodes, current_node)
           hs == [j \in 1 .. Len(neighbors) |-> h(neighbors[j].state)]
       IN  /\ neighbors # <<>>
           /\ hs[FirstMin(hs)] < current_h
           /\ nodes' = nodes \o neighbors
           /\ nodes_expanded' = nodes_expanded + Len(neighbors)
           /\ current_node' = Len(nodes) + FirstMin(hs)
           /\ current_h' = hs[FirstMin(hs)]
    /\ iterations' = iterations + 1
    /\ UNCHANGED <<problem, cfg, pc, searchVars, T, idaVars, gaVars, result, rng, envVars>>

\* no neighbour, or the best one is not strictly better: break, and return
HillClimbingStall ==
    /\ cfg.alg = "HillClimbing" /\ pc = "loop" /\ iterations < cfg.max_steps
    /\ ~IsGoal(problem, nodes[current_node].state)
    /\ LET neighbors == Expand(problem, nodes, current_node)
           hs == [j \in 1 .. Len(neighbors) |-> h(neighbors[j].state)]
       IN  /\ IF neighbors = <<>> THEN TRUE ELSE hs[FirstMin(hs)] >= current_h
           /\ nodes' = nodes \o neighbors
           /\ nodes_expanded' = nodes_expanded + Len(neighbors)
           /\ result' = ReturnAfterLoop(current_node, nodes_expanded + Len(neighbors),
                                        iterations + 1)
    /\ iterations' = iterations + 1
    /\ pc' = "done"
    /\ UNCHANGED <<problem, cfg, searchVars, current_node, current_h, T, idaVars, gaVars,
                   rng, envVars>>

\* range(max_steps) is used up: return
HillClimbingExhausted ==
    /\ cfg.alg = "HillClimbing" /\ pc = "loop" /\ iterations >= cfg.max_steps
    /\ result' = ReturnAfterLoop(current_node, nodes_expanded, iterations)
    /\ pc' = "done"
    /\ UNCHANGED <<problem, cfg, nodes, searchVars, localVars, idaVars, gaVars,
                   nodes_expanded, rng, envVars>>

HillClimbingSearch ==
    \/ HillClimbingBegin \/ HillClimbingReturnGoal \/ HillClimbingMove
    \/ HillClimbingStall \/ HillClimbingExhausted

-----------------------------------------------------------------------------
(* SimulatedAnnealingSearch.search *)

\* T is counted in units of 1e-8, the floor of the loop: T <= 1e-8 is T <= TFloor
TFloor == 1

\* (T0, alpha): 1.0 cooled by 1/2, and 4e-6 cooled by 1/20 (reaches the floor in 2 steps)
Schedules == {<<100000000, <<1, 2>> >>, <<400, <<1, 20>> >>}

SimulatedAnnealingConfigs ==
    {[c EXCEPT !.max_steps = m, !.T0 = sch[1], !.alpha = sch[2]] :
        c \in WithHeuristic("SimulatedAnnealing"), m \in 0 .. MaxSteps, sch \in Schedules}

\* The least T / delta (T in units of 1e-8) for which exp(-delta / T) exceeds
\* 0, 1/4, 1/2, 3/4: 1e8 / 745.13 (below it exp underflows to 0.0), 1e8 / ln 4,
\* 1e8 / ln 2, 1e8 / ln(4/3).
ExpThreshold == <<134205, 72134752, 144269504, 347605949>>

\* random.random() < math.exp(-delta / T), for delta >= 0 and the draw q / 4
Accepts(delta, temp, q) ==
    IF delta = 0 THEN TRUE ELSE temp \div delta > ExpThreshold[q + 1]

\* T *= alpha
Cool(temp) == (temp * cfg.alpha[1]) \div cfg.alpha[2]

\* a variant that keeps the temperature a former call cooled, as if T were an
\* attribute of the algorithm object
SimulatedAnnealingBeginKeepsT ==
    /\ cfg.alg = "SimulatedAnnealing" /\ pc = "call"
    /\ nodes' = <<RootNode(problem.initial)>>
    /\ current_node' = 1
    /\ current_h' = h(problem.initial)
    /\ T' = IF T = 0 THEN cfg.T0 ELSE T
    /\ nodes_expanded' = 0
    /\ iterations' = 0
    /\ pc' = "loop"
    /\ UNCHANGED <<problem, cfg, searchVars, idaVars, gaVars, result, rng, envVars>>

SimulatedAnnealingBegin ==
    /\ cfg.alg = "SimulatedAnnealing" /\ pc = "call"
    /\ nodes' = <<RootNode(problem.initial)>>
    /\ current_node' = 1
    /\ current_h' = h(problem.initial)
    /\ T' = cfg.T0
    /\ nodes_expanded' = 0
    /\ iterations' = 0
    /\ pc' = "loop"
    /\ UNCHANGED <<problem, cfg, searchVars, idaVars, gaVars, result, rng, envVars>>

SimulatedAnnealingReturnGoal ==
    /\ cfg.alg = "SimulatedAnnealing" /\ pc = "loop" /\ iterations < cfg.max_steps
    /\ IsGoal(problem, nodes[current_node].state)
    /\ iterations' = iterations + 1
    /\ result' = SearchResult(current_node, TRUE, nodes_expanded, iterations + 1)
    /\ pc' = "done"
    /\ UNCHANGED <<problem, cfg, nodes, searchVars, current_node, current_h, T, idaVars,
                   gaVars, nodes_expanded, rng, envVars>>

\* T <= 1e-8, or no action: break, and return
SimulatedAnnealingStop ==
    /\ cfg.alg = "SimulatedAnnealing" /\ pc = "loop" /\ iterations < cfg.max_steps
    /\ ~IsGoal(problem, nodes[current_node].state)
    /\ IF T <= TFloor THEN TRUE ELSE Actions(problem, nodes[current_node].state) = <<>>
    /\ iterations' = iterations + 1
    /\ result' = ReturnAfterLoop(current_node, nodes_expanded, iterations + 1)
    /\ pc' = "done"
    /\ UNCHANGED <<problem, cfg, nodes, searchVars, current_node, current_h, T, idaVars,
                   gaVars, nodes_expanded, rng, envVars>>

\* the node the loop body moves to: Node(next_state, current_node, action, ...)
AnnealingChild(action) ==
    LET current_state == nodes[current_node].state
        next_state == Result(problem, current_state, action)
    IN  Node(next_state, current_node, action,
             nodes[current_node].path_cost
                + StepCost(problem, current_state, action, next_state),
             nodes[current_node].depth + 1)

\* a variant that moves by overwriting the current node instead of making a child
SimulatedAnnealingImproveInPlace ==
    /\ cfg.alg = "SimulatedAnnealing" /\ pc = "loop" /\ iterations < cfg.max_steps
    /\ ~IsGoal(problem, nodes[current_node].state)
    /\ T > TFloor
    /\ Actions(problem, nodes[current_node].state) # <<>>
    /\ LET action == RandomChoice(rng, Actions(problem, nodes[current_node].state))
           child == AnnealingChild(action)
       IN  /\ h(child.state) - current_h < 0
           /\ nodes' = [nodes EXCEPT ![current_node] =
                            [@ EXCEPT !.state = child.state, !.action = child.action,
                                      !.path_cost = child.path_cost,
                                      !.depth = child.depth]]
           /\ current_h' = h(child.state)
    /\ rng' = RngNext(rng)
    /\ nodes_expanded' = nodes_expanded + 1
    /\ T' = Cool(T)
    /\ iterations' = iterations + 1
    /\ UNCHANGED <<problem, cfg, pc, searchVars, current_node, idaVars, gaVars, result,
                   envVars>>

\* delta < 0: the move is taken, with no draw of random.random()
SimulatedAnnealingImprove ==
    /\ cfg.alg = "SimulatedAnnealing" /\ pc = "loop" /\ iterations < cfg.max_steps
    /\ ~IsGoal(problem, nodes[current_node].state)
    /\ T > TFloor
    /\ Actions(problem, nodes[current_node].state) # <<>>
    /\ LET action == RandomChoice(rng, Actions(problem, nodes[current_node].state))
           child == AnnealingChild(action)
       IN  /\ h(child.state) - current_h < 0
           /\ nodes' = Append(nodes, child)
           /\ current_node' = Len(nodes) + 1
           /\ current_h' = h(child.state)
    /\ rng' = RngNext(rng)
    /\ nodes_expanded' = nodes_expanded + 1
    /\ T' = Cool(T)
    /\ iterations' = iterations + 1
    /\ UNCHANGED <<problem, cfg, pc, searchVars, idaVars, gaVars, result, envVars>>

\* delta >= 0 and random.random() < exp(-delta / T): the move is taken
SimulatedAnnealingAccept ==
    /\ cfg.alg = "SimulatedAnnealing" /\ pc = "loop" /\ iterations < cfg.max_steps
    /\ ~IsGoal(problem, nodes[current_node].state)
    /\ T > TFloor
    /\ Actions(problem, nodes[current_node].state) # <<>>
    /\ LET action == RandomChoice(rng, Actions(problem, nodes[current_node].state))
           child == AnnealingChild(action)
           delta == h(child.state) - current_h
       IN  /\ delta >= 0
           /\ Accepts(delta, T, RandomQuarters(RngNext(rng)))
           /\ nodes' = Append(nodes, child)
           /\ current_node' = Len(nodes) + 1
           /\ current_h' = h(child.state)
    /\ rng' = RngNext(RngNext(rng))
    /\ nodes_expanded' = nodes_expanded + 1
    /\ T' = Cool(T)
    /\ iterations' = iterations + 1
    /\ UNCHANGED <<problem, cfg, pc, searchVars, idaVars, gaVars, result, envVars>>

\* a variant that cools only when a move is taken
SimulatedAnnealingRejectKeepsT ==
    /\ cfg.alg = "SimulatedAnnealing" /\ pc = "loop" /\ iterations < cfg.max_steps
    /\ ~IsGoal(problem, nodes[current_node].state)
    /\ T > TFloor
    /\ Actions(problem, nodes[current_node].state) # <<>>
    /\ LET action == RandomChoice(rng, Actions(problem, nodes[current_node].state))
           child == AnnealingChild(action)
           delta == h(child.state) - current_h
       IN  /\ delta >= 0
           /\ ~Accepts(delta, T, RandomQuarters(RngNext(rng)))
    /\ rng' = RngNext(RngNext(rng))
    /\ nodes_expanded' = nodes_expanded + 1
    /\ iterations' = iterations + 1
    /\ UNCHANGED <<problem, cfg, pc, nodes, searchVars, current_node, current_h, T,
                   idaVars, gaVars, result, envVars>>

\* delta >= 0 and the draw is not below exp(-delta / T): the move is not taken
SimulatedAnnealingReject ==
    /\ cfg.alg = "SimulatedAnnealing" /\ pc = "loop" /\ iterations < cfg.max_steps
    /\ ~IsGoal(problem, nodes[current_node].state)
    /\ T > TFloor
    /\ Actions(problem, nodes[current_node].state) # <<>>
    /\ LET action == RandomChoice(rng, Actions(problem, nodes[current_node].state))
           child == AnnealingChild(action)
           delta == h(child.state) - current_h
       IN  /\ delta >= 0
           /\ ~Accepts(delta, T, RandomQuarters(RngNext(rng)))
    /\ rng' = RngNext(RngNext(rng))
    /\ nodes_expanded' = nodes_expanded + 1
    /\ T' = Cool(T)
    /\ iterations' = iterations + 1
    /\ UNCHANGED <<problem, cfg, pc, nodes, searchVars, current_node, current_h, idaVars,
                   gaVars, result, envVars>>

SimulatedAnnealingExhausted ==
    /\ cfg.alg = "SimulatedAnnealing" /\ pc = "loop" /\ iterations >= cfg.max_steps
    /\ result' = ReturnAfterLoop(current_node, nodes_expanded, iterations)
    /\ pc' = "done"
    /\ UNCHANGED <<problem, cfg, nodes, searchVars, localVars, idaVars, gaVars,
                   nodes_expanded, rng, envVars>>

SimulatedAnnealingSearch ==
    \/ SimulatedAnnealingBegin \/ SimulatedAnnealingReturnGoal \/ SimulatedAnnealingStop
    \/ SimulatedAnnealingImprove \/ SimulatedAnnealingAccept \/ SimulatedAnnealingReject
    \/ SimulatedAnnealingExhausted

-----------------------------------------------------------------------------
(* IDAStarSearch.search.  search_recursive runs on the interpreter's call     *)
(* stack: `stack` holds one frame per active call (the node, g, min_val and   *)
(* the position i of the for loop in problem.actions(node.state)), `ret` the  *)
(* pair a call has just returned, and a call deeper than MaxRecursion frames  *)
(* raises RecursionError.                                                      *)

IDAStarConfigs == WithHeuristic("IDAStar")

Frame(node, g) == [node |-> node, g |-> g, min_val |-> Infinity, i |-> 1]

Top == stack[Len(stack)]

Pop(stk) == SubSeq(stk, 1, Len(stk) - 1)

ReplaceTop(stk, frame) == [stk EXCEPT ![Len(stk)] = frame]

\* The child the top frame's loop is about to build: Node(next_state, node, action, ...)
FrameChild(frame) ==
    LET node == nodes[frame.node]
        action == Actions(problem, node.state)[frame.i]
        next_state == Result(problem, node.state, action)
    IN  Node(next_state, frame.node, action,
             frame.g + StepCost(problem, node.state, action, next_state),
             node.depth + 1)

\* a variant that never takes the successor for the parent's state
IsParentStateNever(frame) == FALSE

\* node.parent and node.parent.state == next_state
IsParentState(frame) ==
    /\ nodes[frame.node].parent # 0
    /\ nodes[nodes[frame.node].parent].state = FrameChild(frame).state

\* the top frame is in its for loop, with an action left to try
InLoop ==
    /\ cfg.alg = "IDAStar" /\ pc = "loop" /\ ret = NoRet /\ stack # <<>>
    /\ Top.i <= Len(Actions(problem, nodes[Top.node].state))

\* a variant of f that leaves out g
ChildFWithoutG(frame) == h(FrameChild(frame).state)

\* f = g + self.heuristic(node.state) of the call on the child
ChildF(frame) == FrameChild(frame).path_cost + h(FrameChild(frame).state)

IDAStarBegin ==
    /\ cfg.alg = "IDAStar" /\ pc = "call"
    /\ nodes' = <<RootNode(problem.initial)>>
    /\ bound' = h(problem.initial)
    /\ nodes_expanded' = 0
    /\ stack' = <<>>
    /\ ret' = NoRet
    /\ pc' = "loop"
    /\ UNCHANGED <<problem, cfg, searchVars, localVars, gaVars, result, rng, envVars>>

\* while True: search_recursive(root, 0.0, bound)
IDAStarCallRoot ==
    /\ cfg.alg = "IDAStar" /\ pc = "loop" /\ ret = NoRet /\ stack = <<>>
    /\ LET f == h(nodes[1].state)
       IN  IF f > bound
           THEN ret' = [t |-> f, solution |-> 0]
                /\ UNCHANGED <<stack, nodes_expanded>>
           ELSE IF IsGoal(problem, nodes[1].state)
           THEN ret' = [t |-> -1, solution |-> 1]
                /\ UNCHANGED <<stack, nodes_expanded>>
           ELSE stack' = <<Frame(1, 0)>>
                /\ nodes_expanded' = nodes_expanded + 1
                /\ ret' = NoRet
    /\ UNCHANGED <<problem, cfg, pc, nodes, searchVars, localVars, bound, gaVars, result,
                   rng, envVars>>

\* the successor is the parent's state: continue
IDAStarSkipParent ==
    /\ InLoop
    /\ IsParentState(Top)
    /\ stack' = ReplaceTop(stack, [Top EXCEPT !.i = @ + 1])
    /\ UNCHANGED <<problem, cfg, pc, nodes, searchVars, localVars, bound, ret, gaVars,
                   nodes_expanded, result, rng, envVars>>

\* the call on the child returns (f, None) because f > bound
IDAStarCutoff ==
    /\ InLoop
    /\ ~IsParentState(Top)
    /\ Len(stack) < MaxRecursion
    /\ ChildF(Top) > bound
    /\ stack' = ReplaceTop(stack, [Top EXCEPT !.i = @ + 1,
                                              !.min_val = Min({@, ChildF(Top)})])
    /\ UNCHANGED <<problem, cfg, pc, nodes, searchVars, localVars, bound, ret, gaVars,
                   nodes_expanded, result, rng, envVars>>

\* the call on the child returns (-1.0, child): the caller returns it in turn
IDAStarFound ==
    /\ InLoop
    /\ ~IsParentState(Top)
    /\ Len(stack) < MaxRecursion
    /\ ChildF(Top) <= bound
    /\ IsGoal(problem, FrameChild(Top).state)
    /\ nodes' = Append(nodes, FrameChild(Top))
    /\ ret' = [t |-> -1, solution |-> Len(nodes) + 1]
    /\ stack' = Pop(stack)
    /\ UNCHANGED <<problem, cfg, pc, searchVars, localVars, bound, gaVars,
                   nodes_expanded, result, rng, envVars>>

\* the call on the child starts its own loop
IDAStarDescend ==
    /\ InLoop
    /\ ~IsParentState(Top)
    /\ Len(stack) < MaxRecursion
    /\ ChildF(Top) <= bound
    /\ ~IsGoal(problem, FrameChild(Top).state)
    /\ nodes' = Append(nodes, FrameChild(Top))
    /\ stack' = Append(stack, Frame(Len(nodes) + 1, FrameChild(Top).path_cost))
    /\ nodes_expanded' = nodes_expanded + 1
    /\ UNCHANGED <<problem, cfg, pc, searchVars, localVars, bound, ret, gaVars, result,
                   rng, envVars>>

\* the call on the child is one frame too deep for the interpreter
IDAStarRecursionError ==
    /\ InLoop
    /\ ~IsParentState(Top)
    /\ Len(stack) >= MaxRecursion
    /\ result' = Raised("RecursionError", nodes_expanded, 0)
    /\ pc' = "raised"
    /\ UNCHANGED <<problem, cfg, nodes, searchVars, localVars, idaVars, gaVars,
                   nodes_expanded, rng, envVars>>

\* the for loop is over: return min_val, None
IDAStarReturn ==
    /\ cfg.alg = "IDAStar" /\ pc = "loop" /\ ret = NoRet /\ stack # <<>>
    /\ Top.i > Len(Actions(problem, nodes[Top.node].state))
    /\ ret' = [t |-> Top.min_val, solution |-> 0]
    /\ stack' = Pop(stack)
    /\ UNCHANGED <<problem, cfg, pc, nodes, searchVars, localVars, bound, gaVars,
                   nodes_expanded, result, rng, envVars>>

\* t, solution = search_recursive(child, ...) with t == -1.0: return -1.0, solution
IDAStarUnwind ==
    /\ cfg.alg = "IDAStar" /\ pc = "loop" /\ ret # NoRet /\ stack # <<>>
    /\ ret.t = -1
    /\ stack' = Pop(stack)
    /\ UNCHANGED <<problem, cfg, pc, nodes, searchVars, localVars, bound, ret, gaVars,
                   nodes_expanded, result, rng, envVars>>

\* t, solution = search_recursive(child, ...) with another t: keep the minimum, go on
IDAStarResume ==
    /\ cfg.alg = "IDAStar" /\ pc = "loop" /\ ret # NoRet /\ stack # <<>>
    /\ ret.t # -1
    /\ stack' = ReplaceTop(stack, [Top EXCEPT !.i = @ + 1, !.min_val = Min({@, ret.t})])
    /\ ret' = NoRet
    /\ UNCHANGED <<problem, cfg, pc, nodes, searchVars, localVars, bound, gaVars,
                   nodes_expanded, result, rng, envVars>>

\* the root call returned -1.0: success
IDAStarSuccess ==
    /\ cfg.alg = "IDAStar" /\ pc = "loop" /\ ret # NoRet /\ stack = <<>>
    /\ ret.t = -1
    /\ result' = SearchResult(ret.solution, TRUE, nodes_expanded, 0)
    /\ pc' = "done"
    /\ UNCHANGED <<problem, cfg, nodes, searchVars, localVars, idaVars, gaVars,
                   nodes_expanded, rng, envVars>>

\* a variant that raises the bound by 1 instead of to t
IDAStarNextBoundByOne ==
    /\ cfg.alg = "IDAStar" /\ pc = "loop" /\ ret # NoRet /\ stack = <<>>
    /\ ret.t # -1
    /\ IF ret.t = Infinity
       THEN /\ result' = SearchResult(0, FALSE, nodes_expanded, 0)
            /\ pc' = "done"
            /\ UNCHANGED <<bound, ret>>
       ELSE /\ bound' = bound + 1
            /\ ret' = NoRet
            /\ UNCHANGED <<result, pc>>
    /\ UNCHANGED <<problem, cfg, nodes, searchVars, localVars, stack, gaVars,
                   nodes_expanded, rng, envVars>>

\* the root call returned t: failure if t is inf, else bound = t and search again
IDAStarNextBound ==
    /\ cfg.alg = "IDAStar" /\ pc = "loop" /\ ret # NoRet /\ stack = <<>>
    /\ ret.t # -1
    /\ IF ret.t = Infinity
       THEN /\ result' = SearchResult(0, FALSE, nodes_expanded, 0)
            /\ pc' = "done"
            /\ UNCHANGED <<bound, ret>>
       ELSE /\ bound' = ret.t
            /\ ret' = NoRet
            /\ UNCHANGED <<result, pc>>
    /\ UNCHANGED <<problem, cfg, nodes, searchVars, localVars, stack, gaVars,
                   nodes_expanded, rng, envVars>>

IDAStarSearch ==
    \/ IDAStarBegin \/ IDAStarCallRoot \/ IDAStarSkipParent \/ IDAStarCutoff
    \/ IDAStarFound \/ IDAStarDescend \/ IDAStarRecursionError \/ IDAStarReturn
    \/ IDAStarUnwind \/ IDAStarResume \/ IDAStarSuccess \/ IDAStarNextBound

-----------------------------------------------------------------------------
(* GeneticAlgorithmSearch.search *)

\* population_size 3, chromosome_length 2, mutation_rate 1/2, max_generations 0 ..
GeneticConfigs ==
    {[c EXCEPT !.population_size = 3, !.chromosome_length = 2,
               !.mutation_rate = <<1, 2>>, !.max_generations = m] :
        c \in WithHeuristic("Genetic"), m \in 0 .. MaxGenerations}

\* all_actions = ["UP", "DOWN", "LEFT", "RIGHT"]
all_actions == <<"UP", "DOWN", "LEFT", "RIGHT">>

\* the generator after n draws
RECURSIVE RngAdvance(_, _)
RngAdvance(s, n) == IF n = 0 THEN s ELSE RngAdvance(RngNext(s), n - 1)

\* random_individual(), the generator being in state s
random_individual(s) ==
    [k \in 1 .. cfg.chromosome_length |-> RandomChoice(RngAdvance(s, k - 1), all_actions)]

\* a variant that makes a node, on the unchanged state, for a gene that is no
\* action of the current state
RECURSIVE EvaluateFromKeepingAll(_, _, _)
EvaluateFromKeepingAll(chain, individual, k) ==
    IF k > Len(individual)
    THEN [nodes |-> chain, found |-> FALSE]
    ELSE LET current_node_ == chain[Len(chain)]
             action == individual[k]
         IN  IF InSeq(action, Actions(problem, current_node_.state))
             THEN LET next_state == Result(problem, current_node_.state, action)
                      child == Node(next_state, Len(chain), action,
                                    current_node_.path_cost + 1, current_node_.depth + 1)
                  IN  IF IsGoal(problem, next_state)
                      THEN [nodes |-> Append(chain, child), found |-> TRUE]
                      ELSE EvaluateFromKeepingAll(Append(chain, child), individual, k + 1)
             ELSE EvaluateFromKeepingAll(
                      Append(chain, Node(current_node_.state, Len(chain), action,
                                         current_node_.path_cost + 1,
                                         current_node_.depth + 1)),
                      individual, k + 1)

\* evaluate(individual) from position k on, chain holding the nodes built so far:
\* the chain of nodes from the root to current_node, and whether it returned inf
RECURSIVE EvaluateFrom(_, _, _)
EvaluateFrom(chain, individual, k) ==
    IF k > Len(individual)
    THEN [nodes |-> chain, found |-> FALSE]
    ELSE LET current_node_ == chain[Len(chain)]
             action == individual[k]
         IN  IF InSeq(action, Actions(problem, current_node_.state))
             THEN LET next_state == Result(problem, current_node_.state, action)
                      child == Node(next_state, Len(chain), action,
                                    current_node_.path_cost + 1, current_node_.depth + 1)
                  IN  IF IsGoal(problem, next_state)
                      THEN [nodes |-> Append(chain, child), found |-> TRUE]
                      ELSE EvaluateFrom(Append(chain, child), individual, k + 1)
             ELSE EvaluateFrom(chain, individual, k + 1)

evaluate(individual) == EvaluateFrom(<<RootNode(problem.initial)>>, individual, 1)

\* the fitness evaluate returns, as a fraction: float('inf') is <<1, 0>>,
\* 1.0 / (h_val + 1.0) is <<1, h_val + 1>>
Fitness(ev) ==
    IF ev.found THEN <<1, 0>> ELSE <<1, h(ev.nodes[Len(ev.nodes)].state) + 1>>

FitnessGreater(a, b) == a[1] * b[2] > b[1] * a[2]

\* scored.sort(key=lambda x: x[0], reverse=True): stable, greatest fitness first
SortedByFitness(scored) ==
    LET rank(i) == 1 + Cardinality({j \in 1 .. Len(scored) :
                        \/ FitnessGreater(scored[j].fitness, scored[i].fitness)
                        \/ scored[j].fitness = scored[i].fitness /\ j < i})
    IN  [r \in 1 .. Len(scored) |-> scored[CHOOSE i \in 1 .. Len(scored) : rank(i) = r]]

\* random.sample(pool, k) from state s: k draws, each moving the last element of
\* the pool into the place of the one taken
RECURSIVE Sample(_, _, _)
Sample(s, pool, k) ==
    IF k = 0 THEN <<>>
    ELSE LET j == RandBelow(s, Len(pool)) + 1
             rest == [SubSeq(pool, 1, Len(pool) - 1) EXCEPT ![j] = pool[Len(pool)]]
         IN  <<pool[j]>> \o Sample(RngNext(s),
                                   IF j = Len(pool) THEN SubSeq(pool, 1, Len(pool) - 1)
                                   ELSE rest,
                                   k - 1)

\* max(candidates, key=lambda x: x[0]): the first candidate of greatest fitness
FirstMax(candidates) ==
    candidates[CHOOSE i \in 1 .. Len(candidates) :
        /\ \A j \in 1 .. Len(candidates) :
              ~FitnessGreater(candidates[j].fitness, candidates[i].fitness)
        /\ \A j \in 1 .. i - 1 :
              FitnessGreater(candidates[i].fitness, candidates[j].fitness)]

\* _select(scored_population) from state s: three draws
select(s, scored) == FirstMax(Sample(s, scored, 3)).ind

\* _crossover(p1, p2) from state s: one draw
crossover(s, p1, p2) ==
    LET point == RandInt(s, 1, Len(p1) - 1)
    IN  SubSeq(p1, 1, point) \o SubSeq(p2, point + 1, Len(p2))

\* random.random() < self.mutation_rate, for the draw q / 4
Mutates(q) == q * cfg.mutation_rate[2] < 4 * cfg.mutation_rate[1]

\* _mutate(ind, all_actions) from state s: one draw, or three
mutate(s, ind) ==
    IF Mutates(RandomQuarters(s))
    THEN [ind EXCEPT ![RandInt(RngNext(s), 0, Len(ind) - 1) + 1] =
                        RandomChoice(RngNext(RngNext(s)), all_actions)]
    ELSE ind

MutateDraws(s) == IF Mutates(RandomQuarters(s)) THEN 3 ELSE 1

\* the while loop filling new_population, from state s: the population and the
\* generator it ends with
RECURSIVE Breed(_, _, _)
Breed(s, scored, new_population) ==
    IF Len(new_population) >= cfg.population_size
    THEN [population |-> new_population, rng |-> s]
    ELSE LET parent1 == select(s, scored)
             parent2 == select(RngAdvance(s, 3), scored)
             child == crossover(RngAdvance(s, 6), parent1, parent2)
             s_mut == RngAdvance(s, 7)
         IN  Breed(RngAdvance(s_mut, MutateDraws(s_mut)), scored,
                   Append(new_population, mutate(s_mut, child)))

GeneticBegin ==
    /\ cfg.alg = "Genetic" /\ pc = "call"
    /\ population' = [i \in 1 .. cfg.population_size |->
                         random_individual(RngAdvance(rng, (i - 1) * cfg.chromosome_length))]
    /\ rng' = RngAdvance(rng, cfg.population_size * cfg.chromosome_length)
    /\ nodes' = <<>>
    /\ nodes_expanded' = 0
    /\ scored_population' = <<>>
    /\ generation' = 0
    /\ pc' = "loop"
    /\ UNCHANGED <<problem, cfg, searchVars, localVars, idaVars, result, envVars>>

\* the individuals evaluated before the first one of fitness inf, and that one
Evaluated ==
    LET found == {i \in 1 .. Len(population) : evaluate(population[i]).found}
    IN  IF found = {} THEN Len(population) ELSE Min(found)

Scored(n) ==
    [i \in 1 .. n |-> [fitness |-> Fitness(evaluate(population[i])), ind |-> population[i]]]

\* an individual reaches the goal: return it
GeneticReturnGoal ==
    /\ cfg.alg = "Genetic" /\ pc = "loop" /\ generation < cfg.max_generations
    /\ evaluate(population[Evaluated]).found
    /\ scored_population' = Scored(Evaluated)
    /\ nodes_expanded' = nodes_expanded + Evaluated * cfg.chromosome_length
    /\ nodes' = evaluate(population[Evaluated]).nodes
    /\ result' = SearchResult(Len(evaluate(population[Evaluated]).nodes), TRUE,
                              nodes_expanded + Evaluated * cfg.chromosome_length,
                              generation)
    /\ pc' = "done"
    /\ UNCHANGED <<problem, cfg, searchVars, localVars, idaVars, population, generation,
                   rng, envVars>>

\* no individual reaches the goal: score and sort the population
GeneticScore ==
    /\ cfg.alg = "Genetic" /\ pc = "loop" /\ generation < cfg.max_generations
    /\ ~evaluate(population[Evaluated]).found
    /\ scored_population' = SortedByFitness(Scored(Len(population)))
    /\ nodes_expanded' = nodes_expanded + Len(population) * cfg.chromosome_length
    /\ pc' = "breed"
    /\ UNCHANGED <<problem, cfg, nodes, searchVars, localVars, idaVars, population,
                   generation, result, rng, envVars>>

\* a variant whose new_population starts empty: the best individual is not kept
GeneticBreedWithoutElite ==
    /\ cfg.alg = "Genetic" /\ pc = "breed"
    /\ LET bred == Breed(rng, scored_population, <<>>)
       IN  /\ population' = bred.population
           /\ rng' = bred.rng
    /\ generation' = generation + 1
    /\ pc' = "loop"
    /\ UNCHANGED <<problem, cfg, nodes, searchVars, localVars, idaVars, scored_population,
                   nodes_expanded, result, envVars>>

\* new_population: the best individual, then children of selected parents
GeneticBreed ==
    /\ cfg.alg = "Genetic" /\ pc = "breed"
    /\ LET bred == Breed(rng, scored_population, <<scored_population[1].ind>>)
       IN  /\ population' = bred.population
           /\ rng' = bred.rng
    /\ generation' = generation + 1
    /\ pc' = "loop"
    /\ UNCHANGED <<problem, cfg, nodes, searchVars, localVars, idaVars, scored_population,
                   nodes_expanded, result, envVars>>

\* after the loop: evaluate(scored_population[0][1]) decides the result
GeneticFinish ==
    /\ cfg.alg = "Genetic" /\ pc = "loop" /\ generation >= cfg.max_generations
    /\ scored_population # <<>>
    /\ LET ev == evaluate(scored_population[1].ind)
           success == IsGoal(problem, ev.nodes[Len(ev.nodes)].state)
       IN  /\ nodes' = ev.nodes
           /\ result' = SearchResult(IF success THEN Len(ev.nodes) ELSE 0, success,
                                     nodes_expanded, cfg.max_generations)
    /\ pc' = "done"
    /\ UNCHANGED <<problem, cfg, searchVars, localVars, idaVars, gaVars, nodes_expanded,
                   rng, envVars>>

\* after a loop of no generation scored_population is []: scored_population[0] raises
GeneticIndexError ==
    /\ cfg.alg = "Genetic" /\ pc = "loop" /\ generation >= cfg.max_generations
    /\ scored_population = <<>>
    /\ result' = Raised("IndexError", nodes_expanded, 0)
    /\ pc' = "raised"
    /\ UNCHANGED <<problem, cfg, nodes, searchVars, localVars, idaVars, gaVars,
                   nodes_expanded, rng, envVars>>

GeneticAlgorithmSearch ==
    \/ GeneticBegin \/ GeneticReturnGoal \/ GeneticScore \/ GeneticBreed
    \/ GeneticFinish \/ GeneticIndexError

-----------------------------------------------------------------------------
(* One search() call, and the call a batch makes after it *)

Configs ==
    AStarConfigs \cup GreedyConfigs \cup HillClimbingConfigs
    \cup SimulatedAnnealingConfigs \cup IDAStarConfigs \cup GeneticConfigs

\* the classes that draw from module random
Stochastic == {"SimulatedAnnealing", "Genetic"}

\* the states the process-wide generator may be in when a call begins
Seeds == {RngSeed(k) : k \in 0 .. MaxSeed}

\* what a caller reads from a finished call: the SearchResult fields that are not
\* timings, with the actions and the cost of solution_path
Summary ==
    [success |-> result.success,
     actions |-> [i \in 1 .. Len(solution_path(nodes, result)) |->
                     solution_path(nodes, result)[i].action],
     solution_cost |-> solution_cost(nodes, result),
     nodes_expanded |-> result.nodes_expanded,
     iterations |-> result.iterations,
     exception |-> result.exception]

\* the locals of a search() call that has not started
FreshLocals ==
    /\ nodes = <<>>
    /\ frontier = {}
    /\ counter = 0
    /\ best_g = <<>>
    /\ visited = {}
    /\ current_node = 0
    /\ current_h = 0
    /\ T = 0
    /\ iterations = 0
    /\ bound = 0
    /\ stack = <<>>
    /\ ret = NoRet
    /\ population = <<>>
    /\ scored_population = <<>>
    /\ generation = 0
    /\ nodes_expanded = 0
    /\ result = NoResult

\* agent.solve(problem): problem and algorithm built, search() about to run
Init ==
    /\ problem \in Problems
    /\ cfg \in Configs
    /\ pc = "call"
    /\ FreshLocals
    /\ rng \in (IF cfg.alg \in Stochastic THEN Seeds ELSE {RngSeed(0)})
    /\ rng_start = rng
    /\ history = <<>>
    /\ suspended = <<>>
    /\ state = problem.initial
    /\ outcome = NoOutcome

\* AStarSearch alone, with weight 1.0 and a heuristic of the caller's that is
\* admissible and not consistent, on the instances above and on 3x3 boards seven
\* moves away from the goal, where the search comes back to states it has expanded
DeepBoards == {<<2, 4, 3, 0, 1, 6, 7, 5, 8>>, <<2, 4, 3, 0, 1, 5, 7, 8, 6>>}

ReopenProblems ==
    Problems \cup {SlidingPuzzleProblem(3, s, DefaultGoalState(3)) : s \in DeepBoards}

ReopenConfigs ==
    {[NoCfg EXCEPT !.alg = "AStar", !.heuristic = n] : n \in MaskedNames}

InitReopen ==
    /\ problem \in ReopenProblems
    /\ cfg \in ReopenConfigs
    /\ pc = "call"
    /\ FreshLocals
    /\ rng = RngSeed(0)
    /\ rng_start = rng
    /\ history = <<>>
    /\ suspended = <<>>
    /\ state = problem.initial
    /\ outcome = NoOutcome

NextReopen == AStarSearch

SpecReopen == InitReopen /\ [][NextReopen]_vars

\* The algorithm a batch runs next on the same problem: IDAStar after AStar with
\* the same heuristic, and a stochastic algorithm once more on a replay of the
\* random sequence.
FollowUp ==
    IF cfg.alg = "AStar" /\ cfg.weight = <<1, 1>>
    THEN [NoCfg EXCEPT !.alg = "IDAStar", !.heuristic = cfg.heuristic]
    ELSE cfg

\* the next search() of the batch, after the running one returned
RunAgain ==
    /\ pc = "done"
    /\ history = <<>>
    /\ \/ cfg.alg = "AStar" /\ cfg.weight = <<1, 1>>
       \/ cfg.alg \in Stochastic
    /\ history' = <<[cfg |-> cfg, summary |-> Summary]>>
    /\ cfg' = FollowUp
    /\ rng' = rng_start
    /\ pc' = "call"
    /\ UNCHANGED <<problem, nodes, searchVars, localVars, idaVars, gaVars, nodes_expanded,
                   result, rng_start, suspended, state, outcome>>

Next ==
    \/ AStarSearch
    \/ GreedyBestFirstSearch
    \/ HillClimbingSearch
    \/ SimulatedAnnealingSearch
    \/ IDAStarSearch
    \/ GeneticAlgorithmSearch
    \/ RunAgain

Spec == Init /\ [][Next]_vars

\* The same calls on problems of the caller's: every 2x2 board as a sliding puzzle
\* whose moves are called N, S, W, E, and as one whose vertical moves cost 2
DomainProblems ==
    {[size |-> 2, goal |-> DefaultGoalState(2), initial |-> s,
      names |-> [UP |-> "N", DOWN |-> "S", LEFT |-> "W", RIGHT |-> "E"]] :
        s \in Boards(2)}
    \cup {[size |-> 2, goal |-> DefaultGoalState(2), initial |-> s,
           step_costs |-> [UP |-> 2, DOWN |-> 2, LEFT |-> 1, RIGHT |-> 1]] :
             s \in Boards(2)}

InitDomains ==
    /\ problem \in DomainProblems
    /\ cfg \in Configs
    /\ pc = "call"
    /\ FreshLocals
    /\ rng \in (IF cfg.alg \in Stochastic THEN Seeds ELSE {RngSeed(0)})
    /\ rng_start = rng
    /\ history = <<>>
    /\ suspended = <<>>
    /\ state = problem.initial
    /\ outcome = NoOutcome

SpecDomains == InitDomains /\ [][Next]_vars

\* search() has returned or raised
Terminated == pc \in {"done", "raised"}

-----------------------------------------------------------------------------
(* Properties of one call, and of a call and the one after it *)

\* breadth-first search from the states of `level`, d moves from the initial
\* state: the least number of moves to the goal, Infinity if there is none
RECURSIVE ShortestFrom(_, _, _, _)
ShortestFrom(p, seen, level, d) ==
    IF \E s \in level : IsGoal(p, s) THEN d
    ELSE IF level = {} THEN Infinity
    ELSE LET next == {Result(p, x[1], Actions(p, x[1])[x[2]]) :
                         x \in {y \in level \X (1 .. 4) : y[2] <= Len(Actions(p, y[1]))}}
         IN  ShortestFrom(p, seen \cup next, next \ seen, d + 1)

\* the true shortest-path cost of p (every step costs 1)
ShortestCost(p) == ShortestFrom(p, {p.initial}, {p.initial}, 0)

\* misplaced tiles and Manhattan distance never overestimate and are consistent
AdmissibleHeuristics == {"misplaced", "manhattan"}

\* C1: when the initial state is a goal, every algorithm returns success with
\* nodes_expanded = 0 and a solution path of exactly one node.
C1_GoalAtStartCostsNothing ==
    (pc = "done" /\ IsGoal(problem, problem.initial)) =>
        /\ result.success
        /\ result.nodes_expanded = 0
        /\ Len(solution_path(nodes, result)) = 1

\* C2: AStar with weight 1.0 and an admissible, consistent heuristic returns, on
\* every solvable instance, the shortest-path cost found by breadth-first search.
C2_AStarIsOptimal ==
    (/\ Terminated /\ cfg.alg = "AStar" /\ cfg.weight = <<1, 1>>
     /\ cfg.heuristic \in AdmissibleHeuristics
     /\ ShortestCost(problem) # Infinity) =>
        /\ pc = "done"
        /\ result.success
        /\ solution_cost(nodes, result) = ShortestCost(problem)

\* AStar with Manhattan distance returned a 4-move optimum after a real search
C2_Witness ==
    /\ pc = "done" /\ cfg.alg = "AStar" /\ cfg.weight = <<1, 1>>
    /\ cfg.heuristic = "manhattan"
    /\ result.success
    /\ solution_cost(nodes, result) >= 4
    /\ solution_cost(nodes, result) = ShortestCost(problem)
    /\ result.nodes_expanded > 4

\* C3: on a solvable instance, AStar (weight 1.0) and IDAStar given the same
\* admissible heuristic return equal solution_cost.
C3_AStarAndIDAStarAgree ==
    (/\ Terminated /\ cfg.alg = "IDAStar" /\ history # <<>>
     /\ cfg.heuristic \in AdmissibleHeuristics
     /\ ShortestCost(problem) # Infinity) =>
        /\ pc = "done"
        /\ history[1].cfg.alg = "AStar"
        /\ history[1].cfg.heuristic = cfg.heuristic
        /\ history[1].summary.success
        /\ result.success
        /\ solution_cost(nodes, result) = history[1].summary.solution_cost

\* IDAStar returned after AStar on the same instance, both with a 4-move solution
\* that took IDAStar several passes
C3_Witness ==
    /\ pc = "done" /\ cfg.alg = "IDAStar" /\ history # <<>>
    /\ cfg.heuristic = "misplaced"
    /\ result.success
    /\ solution_cost(nodes, result) >= 4
    /\ solution_cost(nodes, result) = history[1].summary.solution_cost
    /\ bound > h(problem.initial)

\* C4: the actions of a successful solution_path, applied in order to the initial
\* state by problem.result, give exactly the state stored in each node and end in
\* a goal state.
C4_SolutionPathReplays ==
    (pc = "done" /\ result.success) =>
        LET path == solution_path(nodes, result)
        IN  /\ path # <<>>
            /\ path[1].state = problem.initial
            /\ \A i \in 2 .. Len(path) :
                  /\ ResultRaises(problem, path[i - 1].state, path[i].action) = "None"
                  /\ Result(problem, path[i - 1].state, path[i].action) = path[i].state
            /\ IsGoal(problem, path[Len(path)].state)

\* Genetic returned a path of two moves from an initial state that is not a goal
C4_Witness ==
    /\ pc = "done" /\ result.success /\ cfg.alg = "Genetic"
    /\ Len(solution_path(nodes, result)) = 3
    /\ ~IsGoal(problem, problem.initial)
    /\ IsGoal(problem, solution_path(nodes, result)[3].state)

\* C5: search() returns on every problem of finitely many states, also when the
\* goal cannot be reached: IDAStar then returns failure.
C5_IDAStarReturnsFailure ==
    (Terminated /\ cfg.alg = "IDAStar" /\ ShortestCost(problem) = Infinity) =>
        (pc = "done" /\ ~result.success)

\* C6: under every budget max_steps or max_generations, zero included, a search
\* that reaches no goal returns success = false and no solution node, and does
\* not end in an exception.
C6_FailureIsReturned ==
    (/\ Terminated
     /\ cfg.alg \in {"HillClimbing", "SimulatedAnnealing", "Genetic"}
     /\ ~result.success) =>
        /\ pc = "done"
        /\ result.exception = "None"
        /\ result.solution_node = 0

\* C8: SimulatedAnnealing and Genetic, run again on a replay of the same random
\* sequence, return the same success flag, the same actions, the same
\* nodes_expanded and the same iterations.
C8_ReplayReturnsTheSame ==
    (Terminated /\ cfg.alg \in Stochastic /\ history # <<>>) =>
        /\ history[1].cfg = cfg
        /\ Summary.success = history[1].summary.success
        /\ Summary.actions = history[1].summary.actions
        /\ Summary.nodes_expanded = history[1].summary.nodes_expanded
        /\ Summary.iterations = history[1].summary.iterations

\* a second SimulatedAnnealing run that drew random numbers on three passes and
\* found the goal, as the first one did
C8_Witness ==
    /\ pc = "done" /\ cfg.alg = "SimulatedAnnealing" /\ history # <<>>
    /\ result.success
    /\ result.nodes_expanded >= 3
    /\ Len(Summary.actions) >= 3
    /\ rng # rng_start

\* C11: IDAStar never generates, below a node, a child whose state is the state
\* of that node's parent: in every node it keeps, and so in every solution path
\* it returns, no state equals the state two positions earlier.
C11_IDAStarNeverStepsBack ==
    (cfg.alg = "IDAStar" /\ pc \in {"loop", "done", "raised"}) =>
        /\ \A id \in 1 .. Len(nodes) :
              (nodes[id].parent # 0 /\ nodes[nodes[id].parent].parent # 0) =>
                  nodes[id].state # nodes[nodes[nodes[id].parent].parent].state
        /\ pc = "done" =>
              \A i \in 3 .. Len(solution_path(nodes, result)) :
                  solution_path(nodes, result)[i].state
                     # solution_path(nodes, result)[i - 2].state

\* IDAStar returned a path of 5 nodes or more after passing over successors that
\* were the parent's state
C11_Witness ==
    /\ cfg.alg = "IDAStar" /\ pc = "done" /\ result.success
    /\ Len(solution_path(nodes, result)) >= 5
    /\ \E id \in 2 .. Len(nodes) :
          \E i \in 1 .. Len(Actions(problem, nodes[id].state)) :
              Result(problem, nodes[id].state, Actions(problem, nodes[id].state)[i])
                 = nodes[nodes[id].parent].state

\* the heuristic values of the children of the root, in the order of problem.actions
RootChildrenH ==
    [j \in 1 .. Len(Actions(problem, problem.initial)) |->
        h(Result(problem, problem.initial, Actions(problem, problem.initial)[j]))]

\* C12: the AStar and GreedyBestFirst frontiers pop, among the entries of equal
\* priority, the one inserted earliest; so GreedyBestFirst, after the root, expands
\* the first in the order of problem.actions of the first moves of least heuristic
\* value.
C12_TiesPopInInsertionOrder ==
    [][(cfg.alg \in {"AStar", "GreedyBestFirst"} /\ pc = "loop" /\ frontier # {}) =>
          /\ \E e \in frontier :
                /\ e \notin frontier'
                /\ \A o \in frontier \ {e} :
                      /\ o \in frontier'
                      /\ o.f > e.f \/ (o.f = e.f /\ o.counter > e.counter)
          /\ (cfg.alg = "GreedyBestFirst" /\ nodes_expanded = 1 /\ nodes_expanded' = 2) =>
                nodes'[Len(nodes) + 1].parent = 1 + FirstMin(RootChildrenH)]_vars

\* GreedyBestFirst has expanded the root and one of two first moves of the same,
\* least heuristic value: the one problem.actions gives first
C12_Witness ==
    /\ cfg.alg = "GreedyBestFirst" /\ pc = "loop" /\ nodes_expanded = 2
    /\ \E j \in 1 .. Len(RootChildrenH) :
          /\ j # FirstMin(RootChildrenH)
          /\ RootChildrenH[j] = RootChildrenH[FirstMin(RootChildrenH)]
    /\ nodes[Len(RootChildrenH) + 2].parent = 1 + FirstMin(RootChildrenH)

\* the 3x3 goal (1,2,3,4,5,6,7,8,0) after one LEFT move of the blank
OneLeftOfGoal ==
    Result(SlidingPuzzleProblem(3, DefaultGoalState(3), DefaultGoalState(3)),
           DefaultGoalState(3), "LEFT")

\* C13: on the 3x3 puzzle with the goal (1,2,3,4,5,6,7,8,0) and the initial state
\* (1,2,3,4,5,6,7,0,8), one LEFT move from the goal, AStar with the Manhattan
\* heuristic returns success with a solution of exactly one action, solution_cost 1
\* and nodes_expanded <= 2.
C13_OneMoveScenario ==
    /\ OneLeftOfGoal = <<1, 2, 3, 4, 5, 6, 7, 0, 8>>
    /\ (/\ Terminated /\ cfg.alg = "AStar" /\ cfg.weight = <<1, 1>>
        /\ cfg.heuristic = "manhattan"
        /\ problem.size = 3 /\ problem.goal = <<1, 2, 3, 4, 5, 6, 7, 8, 0>>
        /\ problem.initial = OneLeftOfGoal) =>
           /\ pc = "done"
           /\ result.success
           /\ Len(solution_path(nodes, result)) = 2
           /\ solution_path(nodes, result)[1].action = "None"
           /\ solution_path(nodes, result)[2].action # "None"
           /\ solution_cost(nodes, result) = 1
           /\ result.nodes_expanded <= 2

\* the scenario has run: AStar with Manhattan distance returned from the board one
\* LEFT move away from the goal, having expanded the root
C13_Witness ==
    /\ pc = "done" /\ cfg.alg = "AStar" /\ cfg.weight = <<1, 1>>
    /\ cfg.heuristic = "manhattan"
    /\ problem.size = 3 /\ problem.initial = <<1, 2, 3, 4, 5, 6, 7, 0, 8>>
    /\ result.nodes_expanded >= 1
    /\ nodes[result.solution_node].action = "RIGHT"

\* C14: a SearchResult without a solution_node has the empty solution_path and the
\* solution_cost +infinity; otherwise solution_path is the chain from the root (the
\* only node of it with parent None, first) to solution_node (last), each node the
\* parent of the next, of length solution_node.depth + 1, and solution_cost is
\* solution_node.path_cost.
C14_DerivedFields ==
    pc = "done" =>
        IF result.solution_node = 0
        THEN /\ solution_path(nodes, result) = <<>>
             /\ solution_cost(nodes, result) = Infinity
        ELSE /\ Len(solution_path(nodes, result)) = nodes[result.solution_node].depth + 1
             /\ solution_path(nodes, result)[1].parent = 0
             /\ solution_path(nodes, result)[Len(solution_path(nodes, result))]
                   = nodes[result.solution_node]
             /\ \A i \in 2 .. Len(solution_path(nodes, result)) :
                   /\ solution_path(nodes, result)[i].parent # 0
                   /\ nodes[solution_path(nodes, result)[i].parent]
                         = solution_path(nodes, result)[i - 1]
             /\ solution_cost(nodes, result) = nodes[result.solution_node].path_cost
             /\ solution_cost(nodes, result) # Infinity

\* a search returned a solution_node three moves below the root
C14_Witness ==
    /\ pc = "done"
    /\ result.solution_node # 0
    /\ nodes[result.solution_node].depth = 3
    /\ Len(solution_path(nodes, result)) = 4

\* the state keys reachable from the keys of level, seen the keys found so far
RECURSIVE ReachableFrom(_, _, _)
ReachableFrom(p, seen, level) ==
    IF level = {} THEN seen
    ELSE LET next == UNION {{Result(p, s, Actions(p, s)[i]) :
                                i \in 1 .. Len(Actions(p, s))} : s \in level}
             new == {s \in next : StateKey(p, s) \notin seen}
         IN  ReachableFrom(p, seen \cup {StateKey(p, s) : s \in new}, new)

\* the nodes of the arena that were expanded: the parents
ExpandedNodes == {nodes[id].parent : id \in 2 .. Len(nodes)}

\* C17: GreedyBestFirst expands a state key at most once: a frontier entry whose key
\* was popped before is skipped before the goal test and the expansion, whatever
\* its path_cost, so nodes_expanded never exceeds the number of distinct reachable
\* state keys.
C17_GreedyExpandsAKeyOnce ==
    [][(cfg.alg = "GreedyBestFirst" /\ pc = "loop" /\ frontier # {}) =>
          \A e \in frontier \ frontier' :
             /\ StateKey(problem, nodes[e.node].state) \in visited =>
                   /\ pc' = "loop"
                   /\ nodes' = nodes
                   /\ nodes_expanded' = nodes_expanded
                   /\ visited' = visited
             /\ StateKey(problem, nodes[e.node].state) \notin visited =>
                   /\ StateKey(problem, nodes[e.node].state) \in visited'
                   /\ pc' = "loop" =>
                         /\ nodes_expanded' = nodes_expanded + 1
                         /\ nodes_expanded' = Cardinality(visited')
                         /\ \A m \in ExpandedNodes' \ {e.node} :
                               nodes[m].state # nodes[e.node].state
                         /\ problem.size = 2 =>
                               nodes_expanded' <= Cardinality(
                                   ReachableFrom(problem,
                                                 {StateKey(problem, problem.initial)},
                                                 {problem.initial}))]_vars

\* GreedyBestFirst has popped more entries than it expanded nodes: an entry whose
\* key was popped before was skipped, and every expanded state was expanded once
C17_Witness ==
    /\ cfg.alg = "GreedyBestFirst" /\ pc = "loop"
    /\ nodes_expanded >= 3
    /\ counter + 1 - Cardinality(frontier) > nodes_expanded
    /\ Cardinality({nodes[m].state : m \in ExpandedNodes}) = nodes_expanded

\* the heuristic values of the neighbours of state s, in the order of problem.actions
NeighbourH(s) ==
    [j \in 1 .. Len(Actions(problem, s)) |->
        h(Result(problem, s, Actions(problem, s)[j]))]

\* the states on the way from the root to the current node
Trajectory == {NodePath(nodes, current_node)[i].state :
                  i \in 1 .. Len(NodePath(nodes, current_node))}

\* C18: HillClimbing replaces the current node only by the neighbour of least
\* heuristic value, the first in action order on ties, and only if that value is
\* strictly smaller than the current one, so the heuristic strictly decreases along
\* the trajectory and no state is visited twice; the search stops in the first
\* iteration in which the best neighbour is not strictly better; iterations never
\* exceeds max_steps.
C18_HillClimbingStrictlyDescends ==
    [][(cfg.alg = "HillClimbing" /\ pc = "loop") =>
          LET s == nodes[current_node].state
              hs == NeighbourH(s)
          IN  /\ current_h = h(s)
              /\ iterations' <= cfg.max_steps
              /\ current_node' # current_node =>
                    /\ nodes'[current_node'].parent = current_node
                    /\ \E j \in 1 .. Len(hs) :
                          /\ nodes'[current_node'].state
                                = Result(problem, s, Actions(problem, s)[j])
                          /\ \A k \in 1 .. Len(hs) : hs[j] <= hs[k]
                          /\ \A k \in 1 .. j - 1 : hs[k] > hs[j]
                          /\ hs[j] < h(s)
                          /\ current_h' = hs[j]
                    /\ nodes'[current_node'].state \notin Trajectory
                    /\ pc' = "loop"
              /\ (/\ iterations < cfg.max_steps /\ ~IsGoal(problem, s)
                  /\ \A k \in 1 .. Len(hs) : hs[k] >= h(s)) =>
                    /\ pc' = "done"
                    /\ current_node' = current_node
                    /\ ~result'.success
              /\ pc' = "loop" => current_node' # current_node]_vars

\* HillClimbing moved to the first of two equally good neighbours and then stopped
\* at a state, not the goal, whose neighbours it had generated
C18_Witness ==
    /\ cfg.alg = "HillClimbing" /\ pc = "done"
    /\ ~result.success /\ current_node \in ExpandedNodes
    /\ nodes[current_node].depth >= 1
    /\ \E j, k \in 1 .. Len(NeighbourH(nodes[nodes[current_node].parent].state)) :
          /\ j < k
          /\ NeighbourH(nodes[nodes[current_node].parent].state)[j]
                = NeighbourH(nodes[nodes[current_node].parent].state)[k]
          /\ NeighbourH(nodes[nodes[current_node].parent].state)[j] = current_h

\* C15: AStar with weight 1.0 and a heuristic that is admissible but not consistent
\* still returns, on every solvable instance, the shortest-path cost, as a state key
\* already expanded is expanded again when a strictly cheaper path to it is popped.
C15_ReopeningKeepsAStarOptimal ==
    (/\ Terminated /\ cfg.alg = "AStar" /\ cfg.weight = <<1, 1>>
     /\ cfg.heuristic \in MaskedNames
     /\ ShortestCost(problem) # Infinity) =>
        /\ pc = "done"
        /\ result.success
        /\ solution_cost(nodes, result) = ShortestCost(problem)

\* AStar returned the optimum of seven moves after it had expanded a state a second
\* time, under a heuristic that dropped by more than the step cost along a move
C15_Witness ==
    /\ pc = "done" /\ cfg.alg = "AStar" /\ cfg.weight = <<1, 1>>
    /\ cfg.heuristic \in MaskedNames
    /\ result.success
    /\ solution_cost(nodes, result) = 7
    /\ solution_cost(nodes, result) = ShortestCost(problem)
    /\ result.nodes_expanded > Cardinality(DOMAIN best_g)
    /\ \E id \in 2 .. Len(nodes) :
          h(nodes[nodes[id].parent].state)
             > StepCost(problem, nodes[nodes[id].parent].state, nodes[id].action,
                        nodes[id].state) + h(nodes[id].state)

\* C16: AStar discards a popped non-goal node whose key has a recorded cost no
\* greater than its path_cost, generating no children and leaving best_g and
\* nodes_expanded alone; it expands every other popped non-goal node, adding exactly 1
\* to nodes_expanded and recording its path_cost, so the cost recorded for a key
\* strictly decreases at each further expansion of the key.
C16_LazyDeletionAndRecording ==
    [][(cfg.alg = "AStar" /\ pc = "loop" /\ frontier # {}) =>
          \A e \in frontier \ frontier' :
             LET n == nodes[e.node]
                 key == StateKey(problem, n.state)
             IN  ~IsGoal(problem, n.state) =>
                    IF key \in DOMAIN best_g /\ best_g[key] <= n.path_cost
                    THEN /\ nodes' = nodes
                         /\ frontier' = frontier \ {e}
                         /\ counter' = counter
                         /\ best_g' = best_g
                         /\ nodes_expanded' = nodes_expanded
                         /\ pc' = "loop"
                    ELSE /\ Len(nodes') = Len(nodes) + Len(Actions(problem, n.state))
                         /\ \A id \in Len(nodes) + 1 .. Len(nodes') :
                               nodes'[id].parent = e.node
                         /\ nodes_expanded' = nodes_expanded + 1
                         /\ DOMAIN best_g' = DOMAIN best_g \cup {key}
                         /\ best_g'[key] = n.path_cost
                         /\ key \in DOMAIN best_g => best_g'[key] < best_g[key]
                         /\ \A k \in DOMAIN best_g \ {key} : best_g'[k] = best_g[k]
                         /\ pc' = "loop"]_vars

\* AStar has discarded a popped node and has expanded a key a second time
C16_Witness ==
    /\ cfg.alg = "AStar" /\ pc = "loop"
    /\ counter + 1 - Cardinality(frontier) > nodes_expanded
    /\ nodes_expanded > Cardinality(DOMAIN best_g)

\* the least f = g + h over the nodes a depth-first pass with bound b prunes below
\* state s, reached at cost g from parent_state; Infinity if it prunes none
RECURSIVE PrunedMin(_, _, _, _)
PrunedMin(s, parent_state, g, b) ==
    IF g + h(s) > b THEN g + h(s)
    ELSE IF IsGoal(problem, s) THEN Infinity
    ELSE Min({Infinity} \cup
             {PrunedMin(Result(problem, s, Actions(problem, s)[i]), s,
                        g + StepCost(problem, s, Actions(problem, s)[i],
                                     Result(problem, s, Actions(problem, s)[i])), b) :
                 i \in {j \in 1 .. Len(Actions(problem, s)) :
                           Result(problem, s, Actions(problem, s)[j]) # parent_state}})

\* C19: the first depth-first pass of IDAStar has the bound h(initial state), each
\* later pass the least f = g + h over the nodes the pass before pruned; the bounds
\* strictly increase, and the solution returned has path_cost + h(goal state) no
\* greater than the bound of the pass that found it.
C19_IDAStarBounds ==
    [][cfg.alg = "IDAStar" =>
          /\ (pc = "call" /\ pc' = "loop") => bound' = h(problem.initial)
          /\ (pc = "loop" /\ bound' # bound) =>
                /\ bound' > bound
                /\ bound' = PrunedMin(problem.initial, <<>>, 0, bound)
                /\ pc' = "loop"
          /\ (pc = "loop" /\ pc' = "done" /\ result'.success) =>
                /\ bound' = bound
                /\ nodes[result'.solution_node].path_cost
                      + h(nodes[result'.solution_node].state) <= bound
                /\ IsGoal(problem, nodes[result'.solution_node].state)]_vars

\* IDAStar returned a solution in a pass whose bound is at least 3 above the first
C19_Witness ==
    /\ cfg.alg = "IDAStar" /\ pc = "done" /\ result.success
    /\ bound >= h(problem.initial) + 3
    /\ solution_cost(nodes, result) + h(nodes[result.solution_node].state) <= bound

\* C20: every generation GeneticAlgorithm evaluates adds exactly
\* population_size * chromosome_length to nodes_expanded, the generation that
\* reports success included, so the nodes_expanded of a returned result is a multiple
\* of population_size * chromosome_length; iterations is, on success, the zero-based
\* index of the generation that found the goal and, on failure, max_generations.
\* Stated for the instances whose initial state is not the goal.
C20_GeneticCountsWholeGenerations ==
    (cfg.alg = "Genetic" /\ pc = "done" /\ ~IsGoal(problem, problem.initial)) =>
        /\ result.nodes_expanded % (cfg.population_size * cfg.chromosome_length) = 0
        /\ result.success =>
              /\ result.iterations = generation
              /\ result.nodes_expanded
                    = (result.iterations + 1)
                         * cfg.population_size * cfg.chromosome_length
        /\ ~result.success =>
              /\ result.iterations = cfg.max_generations
              /\ result.nodes_expanded
                    = cfg.max_generations * cfg.population_size * cfg.chromosome_length

\* C21: GeneticAlgorithm carries the fittest individual of each evaluated generation
\* into the next one with the same genes; every individual has chromosome_length
\* genes and every generation population_size individuals; so the best fitness in
\* the population never decreases from one generation to the next.
C21_ElitismAndShape ==
    [][(cfg.alg = "Genetic" /\ pc \in {"loop", "breed"}) =>
          /\ Len(population) = cfg.population_size
          /\ \A i \in 1 .. Len(population) : Len(population[i]) = cfg.chromosome_length
          /\ population' # population =>
                /\ \E i \in 1 .. Len(population) :
                      /\ population'[1] = population[i]
                      /\ \A j \in 1 .. Len(population) :
                            ~FitnessGreater(Fitness(evaluate(population[j])),
                                            Fitness(evaluate(population[i])))
                /\ Len(population') = cfg.population_size
                /\ \A i \in 1 .. Len(population') :
                      Len(population'[i]) = cfg.chromosome_length
                /\ \A j \in 1 .. Len(population) :
                      \E i \in 1 .. Len(population') :
                         ~FitnessGreater(Fitness(evaluate(population[j])),
                                         Fitness(evaluate(population'[i])))]_vars

\* a second generation stands: its first individual is the fittest of the first, and
\* crossover or mutation made an individual the first generation did not hold
C21_Witness ==
    /\ cfg.alg = "Genetic" /\ pc = "loop" /\ generation = 1
    /\ population[1] = scored_population[1].ind
    /\ \E i \in 2 .. Len(population) :
          \A j \in 1 .. Len(scored_population) : population[i] # scored_population[j].ind
    /\ \E j \in 2 .. Len(scored_population) :
          FitnessGreater(scored_population[1].fitness, scored_population[j].fitness)

\* the states a replay of the genes k .. of individual passes from state s: a gene
\* that is no action of the state is passed over, and the replay ends at a goal
RECURSIVE ReplayStates(_, _, _)
ReplayStates(s, individual, k) ==
    IF k > Len(individual) THEN <<>>
    ELSE IF \A i \in 1 .. Len(Actions(problem, s)) :
               Actions(problem, s)[i] # individual[k]
    THEN ReplayStates(s, individual, k + 1)
    ELSE IF IsGoal(problem, Result(problem, s, individual[k]))
    THEN <<Result(problem, s, individual[k])>>
    ELSE <<Result(problem, s, individual[k])>>
            \o ReplayStates(Result(problem, s, individual[k]), individual, k + 1)

\* the chain of nodes is a path of legal transitions from the initial state
LegalChain(chain) ==
    /\ chain[1] = RootNode(problem.initial)
    /\ \A k \in 2 .. Len(chain) :
          /\ chain[k].parent = k - 1
          /\ chain[k].depth = k - 1
          /\ \E i \in 1 .. Len(Actions(problem, chain[k - 1].state)) :
                Actions(problem, chain[k - 1].state)[i] = chain[k].action
          /\ ResultRaises(problem, chain[k - 1].state, chain[k].action) = "None"
          /\ chain[k].state = Result(problem, chain[k - 1].state, chain[k].action)

Alphabet(p) ==
    UNION {{Actions(p, s)[i] : i \in 1 .. Len(Actions(p, s))} :
              s \in ReachableFrom(p, {StateKey(p, p.initial)}, {p.initial})}

\* C23: whatever Problem GeneticAlgorithm is given, every gene of every chromosome,
\* in the initial population and after mutation, is an element of the action
\* alphabet of that problem.
C23_GenesAreActionsOfTheProblem ==
    (cfg.alg = "Genetic" /\ pc \in {"loop", "breed"}) =>
        \A i \in 1 .. Len(population) :
            \A k \in 1 .. Len(population[i]) : population[i][k] \in Alphabet(problem)

\* T0 after k multiplications by alpha
RECURSIVE CooledTimes(_, _)
CooledTimes(temp, k) ==
    IF k = 0 THEN temp
    ELSE CooledTimes((temp * cfg.alpha[1]) \div cfg.alpha[2], k - 1)

\* C24: an iteration of SimulatedAnnealing that picks an action adds exactly 1 to
\* nodes_expanded and multiplies T by alpha exactly once, whether the move is taken
\* or not; an iteration that returns success or stops changes neither.  So after k
\* attempted transitions T is T0 * alpha^k and nodes_expanded is k, and at the return
\* nodes_expanded is iterations or iterations - 1, with iterations <= max_steps.
C24_AnnealingCountsAndCools ==
    [][(cfg.alg = "SimulatedAnnealing" /\ pc = "loop") =>
          /\ nodes_expanded = iterations
          /\ T = CooledTimes(cfg.T0, nodes_expanded)
          /\ (pc' = "loop" \/ rng' # rng) =>
                /\ pc' = "loop" /\ rng' # rng
                /\ nodes_expanded' = nodes_expanded + 1
                /\ iterations' = iterations + 1
                /\ T' = (T * cfg.alpha[1]) \div cfg.alpha[2]
                /\ Len(nodes') \in {Len(nodes), Len(nodes) + 1}
          /\ pc' = "done" =>
                /\ nodes_expanded' = nodes_expanded
                /\ T' = T
                /\ nodes' = nodes
                /\ result'.nodes_expanded = nodes_expanded
                /\ result'.nodes_expanded
                      \in {result'.iterations, result'.iterations - 1}
                /\ result'.iterations <= cfg.max_steps]_vars

\* SimulatedAnnealing stopped on a cold T in its third iteration, after two attempted
\* transitions of which at least one was not taken
C24_Witness ==
    /\ cfg.alg = "SimulatedAnnealing" /\ pc = "done"
    /\ T <= TFloor
    /\ result.iterations = 3 /\ result.nodes_expanded = 2
    /\ Len(nodes) - 1 < result.nodes_expanded
    /\ T = CooledTimes(cfg.T0, 2)

\* C25: a search() call leaves the Problem it was given as it was, and changes no
\* field of a Node once the node is made: an expansion or a move to a child only
\* makes new nodes that refer to it.
C25_ProblemAndNodesAreNotChanged ==
    [][/\ problem' = problem
       /\ (pc = "loop" /\ pc' \in {"loop", "done", "raised"}
           /\ cfg.alg # "Genetic") =>
             /\ Len(nodes') >= Len(nodes)
             /\ \A id \in 1 .. Len(nodes) : nodes'[id] = nodes[id]
             /\ \A id \in Len(nodes) + 1 .. Len(nodes') :
                   nodes'[id].parent \in 1 .. Len(nodes)
             /\ nodes'[1] = RootNode(problem.initial)
       /\ (pc = "loop" /\ cfg.alg = "Genetic" /\ nodes' # nodes) =>
             /\ nodes = <<>>
             /\ pc' = "done"
             /\ nodes'[1] = RootNode(problem.initial)]_vars

\* a local search has moved twice: the two nodes it left are in the arena as they
\* were made, below the root that holds the problem's initial state
C25_Witness ==
    /\ cfg.alg \in {"HillClimbing", "SimulatedAnnealing"} /\ pc \in {"loop", "done"}
    /\ nodes[current_node].depth >= 2
    /\ nodes[1] = RootNode(problem.initial)
    /\ nodes[nodes[current_node].parent].state
          # nodes[current_node].state

\* C26: in every SearchResult an algorithm returns, success is true exactly when
\* solution_node is not None; and when success is true, solution_node.state is a goal
\* and the root of solution_path holds the problem's initial state.
C26_SuccessMeansAGoalNode ==
    pc = "done" =>
        /\ result.success <=> result.solution_node # 0
        /\ result.success =>
              /\ result.solution_node \in 1 .. Len(nodes)
              /\ IsGoal(problem, nodes[result.solution_node].state)
              /\ solution_path(nodes, result)[1].state = problem.initial
              /\ solution_path(nodes, result)[1].parent = 0
        /\ ~result.success => solution_path(nodes, result) = <<>>

\* a local search returned success with a goal node two moves below the root
C26_Witness ==
    /\ pc = "done" /\ cfg.alg \in {"HillClimbing", "SimulatedAnnealing"}
    /\ result.success /\ result.solution_node # 0
    /\ IsGoal(problem, nodes[result.solution_node].state)
    /\ Len(solution_path(nodes, result)) = 3
    /\ solution_path(nodes, result)[1].state = problem.initial

\* the sum of problem.step_cost(s, a, s') over the first n transitions of path
RECURSIVE PathStepCosts(_, _)
PathStepCosts(path, n) ==
    IF n = 0 THEN 0
    ELSE PathStepCosts(path, n - 1)
            + StepCost(problem, path[n].state, path[n + 1].action, path[n + 1].state)

\* C27: for every algorithm and every successful result, on a problem of any
\* non-negative step costs, solution_node.path_cost is the sum of
\* problem.step_cost(s, a, s') over the transitions of solution_path, depth is the
\* number of transitions, and path_cost does not decrease from the root to
\* solution_node.
C27_PathCostSumsStepCosts ==
    (pc = "done" /\ result.success) =>
        /\ nodes[result.solution_node].path_cost
              = PathStepCosts(solution_path(nodes, result),
                              Len(solution_path(nodes, result)) - 1)
        /\ nodes[result.solution_node].depth = Len(solution_path(nodes, result)) - 1
        /\ \A k \in 2 .. Len(solution_path(nodes, result)) :
              solution_path(nodes, result)[k - 1].path_cost
                 <= solution_path(nodes, result)[k].path_cost

\* a walk of the blank three times round the rim of a 3x3 board, from the top
\* right corner to the bottom right one
RimTour ==
    <<"DOWN", "DOWN", "LEFT", "LEFT", "UP", "UP", "RIGHT", "RIGHT",
      "DOWN", "DOWN", "LEFT", "LEFT", "UP", "UP", "RIGHT", "RIGHT",
      "DOWN", "DOWN", "LEFT", "LEFT", "UP", "UP", "RIGHT", "RIGHT",
      "DOWN", "DOWN">>

\* whether the actions k .. of moves are each an action of the state they are
\* taken in, starting from s, and the last of them ends in the goal of p
RECURSIVE SolvedBy(_, _, _, _)
SolvedBy(p, s, moves, k) ==
    IF k > Len(moves) THEN IsGoal(p, s)
    ELSE /\ InSeq(moves[k], Actions(p, s))
         /\ \E next_state \in {Result(p, s, moves[k])} :
                SolvedBy(p, next_state, moves, k + 1)

\* C28: linear_conflict_heuristic never overestimates: on a 2x2 board that can
\* reach the default goal its value is at most the least number of moves to the
\* goal, and on any board its value is at most the length of any sequence of
\* legal moves that takes the board to the goal (here RimTour).
C28_LinearConflictIsAdmissible ==
    LET value == linear_conflict_heuristic(problem.goal, problem.size, state)
        here == SlidingPuzzleProblem(problem.size, state, problem.goal)
    IN  /\ problem.size = 2 /\ ShortestCost(here) # Infinity
              => value <= ShortestCost(here)
        /\ SolvedBy(problem, state, RimTour, 1) => value <= Len(RimTour)

\* the action that moves the blank back
OppositeAction(action) ==
    CASE action = "UP" -> "DOWN"
      [] action = "DOWN" -> "UP"
      [] action = "LEFT" -> "RIGHT"
      [] action = "RIGHT" -> "LEFT"

\* whether t is s with the blank and a tile next to it, in its row or its
\* column, exchanged
BlankMovedOneCell(size, s, t) ==
    LET from == IndexToPos(size, TupleIndex(s, 0))
        to == IndexToPos(size, TupleIndex(t, 0))
    IN  /\ Abs(from[1] - to[1]) + Abs(from[2] - to[2]) = 1
        /\ t = SwapTiles(s, TupleIndex(s, 0), TupleIndex(t, 0))

\* C29: the initial state of a problem made by SlidingPuzzleProblem.scrambled is a
\* permutation of 0 .. size*size-1; each action of it exchanges the blank with a
\* tile next to it and is undone by the opposite action; and whatever
\* scramble_depth produced it, the goal is at most that many moves away.
C29_ScrambledIsSolvableWithinDepth ==
    problem.size = 3 =>
        /\ problem.initial \in Boards(3)
        /\ \E depth \in 0 .. ScrambleDepth : problem.initial \in ScrambledStates(3, depth)
        /\ \A depth \in 0 .. ScrambleDepth :
              problem.initial \in ScrambledStates(3, depth)
                 => ShortestCost(problem) <= depth
        /\ \A i \in 1 .. Len(Actions(problem, problem.initial)) :
              LET action == Actions(problem, problem.initial)[i]
                  moved == Result(problem, problem.initial, action)
              IN  /\ BlankMovedOneCell(3, problem.initial, moved)
                  /\ InSeq(OppositeAction(action), Actions(problem, moved))
                  /\ Result(problem, moved, OppositeAction(action)) = problem.initial
        /\ (pc = "done" /\ cfg.alg = "AStar" /\ cfg.weight = <<1, 1>>
            /\ cfg.heuristic \in AdmissibleHeuristics) =>
              /\ result.success
              /\ \A depth \in 0 .. ScrambleDepth :
                    problem.initial \in ScrambledStates(3, depth)
                       => solution_cost(nodes, result) <= depth

\* a board that takes all of its scramble_depth moves to solve, solved by AStar
C29_Witness ==
    /\ problem.size = 3
    /\ problem.initial \in ScrambledStates(3, ScrambleDepth)
    /\ ShortestCost(problem) = ScrambleDepth
    /\ pc = "done" /\ cfg.alg = "AStar" /\ cfg.weight = <<1, 1>>
    /\ cfg.heuristic \in AdmissibleHeuristics
    /\ result.success
    /\ solution_cost(nodes, result) = ScrambleDepth

\* C30: AStar and GreedyBestFirst return success exactly when a goal state can
\* be reached from the initial state; when none can, they return failure with
\* the frontier empty, GreedyBestFirst having expanded every reachable state
\* key once.  (The reachable keys are enumerated for the 2x2 boards; the 3x3
\* boards of the model can all reach the goal.)
C30_BestFirstSearchesAreComplete ==
    (Terminated /\ cfg.alg \in {"AStar", "GreedyBestFirst"}) =>
        /\ pc = "done"
        /\ problem.size = 3 => result.success
        /\ problem.size = 2 =>
              LET reachable == ReachableFrom(problem, {StateKey(problem, problem.initial)},
                                             {problem.initial})
              IN  /\ result.success <=> StateKey(problem, problem.goal) \in reachable
                  /\ ~result.success =>
                        /\ frontier = {}
                        /\ cfg.alg = "GreedyBestFirst"
                              => result.nodes_expanded = Cardinality(reachable)

\* GreedyBestFirst has failed on a board that cannot reach the goal, after it
\* expanded all twelve boards that can be reached
C30_Witness ==
    /\ pc = "done" /\ cfg.alg = "GreedyBestFirst"
    /\ ~result.success
    /\ frontier = {}
    /\ result.nodes_expanded = 12
    /\ problem.goal \notin {nodes[id].state : id \in 1 .. Len(nodes)}

-----------------------------------------------------------------------------
(* Two search() calls on two threads of one process (the GUI starts a thread  *)
(* per solve).  Each call has its own locals; module random's generator is    *)
(* the process's.  The running thread's locals are the variables of the       *)
(* model, the other thread's are the frame in `suspended`.  Before the two    *)
(* threads start, each call is run alone from the same generator state and    *)
(* its result kept in `history`.                                              *)

\* largest scramble depth of the 2x2 instances given to the two threads
ConcDepth == 2

ConcProblems ==
    {SlidingPuzzleProblem(2, s, DefaultGoalState(2)) :
        s \in UNION {ScrambledStates(2, d) : d \in 0 .. ConcDepth}}

\* the stochastic algorithms, with Manhattan distance and the largest step budget
ConcConfigs ==
    {c \in SimulatedAnnealingConfigs : c.heuristic = "manhattan" /\ c.max_steps = MaxSteps}
    \cup {c \in GeneticConfigs : c.heuristic = "manhattan"}

\* the locals of the running call, as the frame of thread t
SavedFrame(t) ==
    [thread |-> t,
     problem |-> problem,
     cfg |-> cfg,
     pc |-> pc,
     nodes |-> nodes,
     frontier |-> frontier,
     counter |-> counter,
     best_g |-> best_g,
     visited |-> visited,
     current_node |-> current_node,
     current_h |-> current_h,
     T |-> T,
     iterations |-> iterations,
     bound |-> bound,
     stack |-> stack,
     ret |-> ret,
     population |-> population,
     scored_population |-> scored_population,
     generation |-> generation,
     nodes_expanded |-> nodes_expanded,
     result |-> result]

\* the locals of a call of algorithm c on problem p that has not started
FreshFrame(t, p, c) ==
    [thread |-> t, problem |-> p, cfg |-> c, pc |-> "call", nodes |-> <<>>,
     frontier |-> {}, counter |-> 0, best_g |-> <<>>, visited |-> {},
     current_node |-> 0, current_h |-> 0, T |-> 0, iterations |-> 0, bound |-> 0,
     stack |-> <<>>, ret |-> NoRet, population |-> <<>>, scored_population |-> <<>>,
     generation |-> 0, nodes_expanded |-> 0, result |-> NoResult]

\* the thread whose locals are the variables
Running == 3 - suspended[1].thread

\* the interpreter resumes the thread of `frame`
Resume(frame) ==
    /\ problem' = frame.problem
    /\ cfg' = frame.cfg
    /\ pc' = frame.pc
    /\ nodes' = frame.nodes
    /\ frontier' = frame.frontier
    /\ counter' = frame.counter
    /\ best_g' = frame.best_g
    /\ visited' = frame.visited
    /\ current_node' = frame.current_node
    /\ current_h' = frame.current_h
    /\ T' = frame.T
    /\ iterations' = frame.iterations
    /\ bound' = frame.bound
    /\ stack' = frame.stack
    /\ ret' = frame.ret
    /\ population' = frame.population
    /\ scored_population' = frame.scored_population
    /\ generation' = frame.generation
    /\ nodes_expanded' = frame.nodes_expanded
    /\ result' = frame.result

InitConc ==
    /\ problem \in ConcProblems
    /\ cfg \in ConcConfigs
    /\ pc = "call"
    /\ FreshLocals
    /\ \E p \in ConcProblems, c \in ConcConfigs : suspended = <<FreshFrame(2, p, c)>>
    /\ rng \in Seeds
    /\ rng_start = rng
    /\ history = <<>>
    /\ state = problem.initial
    /\ outcome = NoOutcome

\* the first call has run alone: the second one runs alone, from the same generator state
NextAlone ==
    /\ Terminated /\ Len(history) = 0
    /\ history' = <<[thread |-> Running, summary |-> Summary]>>
    /\ suspended' = <<SavedFrame(Running)>>
    /\ Resume(suspended[1])
    /\ rng' = rng_start
    /\ UNCHANGED <<rng_start, state, outcome>>

\* threading.Thread(target=self._run_search, ...).start(), twice: both calls start
\* again, the generator in the same state
StartThreads ==
    /\ Terminated /\ Len(history) = 1
    /\ history' = Append(history, [thread |-> Running, summary |-> Summary])
    /\ suspended' = <<[suspended[1] EXCEPT !.pc = "call"]>>
    /\ pc' = "call"
    /\ rng' = rng_start
    /\ UNCHANGED <<problem, cfg, nodes, searchVars, localVars, idaVars, gaVars,
                   nodes_expanded, result, rng_start, state, outcome>>

\* the interpreter switches to the other thread, whose call has not ended
Switch ==
    /\ Len(history) = 2
    /\ suspended[1].pc \notin {"done", "raised"}
    /\ suspended' = <<SavedFrame(Running)>>
    /\ Resume(suspended[1])
    /\ UNCHANGED <<rng, rng_start, history, state, outcome>>

NextConc ==
    \/ SimulatedAnnealingSearch
    \/ GeneticAlgorithmSearch
    \/ NextAlone
    \/ StartThreads
    \/ Switch

SpecConc == InitConc /\ [][NextConc]_vars

\* the result thread t's call returned when it ran alone
AloneSummary(t) ==
    IF history[1].thread = t THEN history[1].summary ELSE history[2].summary

\* C9: two concurrent search() calls share no mutable state: under every
\* interleaving each call returns what it returns when run alone with the same
\* random sequence.
C9_InterleavedAsAlone ==
    (Len(history) = 2 /\ Terminated) => Summary = AloneSummary(Running)

=============================================================================
